---------------------------- MODULE Spec2Model ----------------------------
(***************************************************************************)
(* A model of the worker supervision and window coordination engine of     *)
(* AutoWake (src/ensure_link.py):                                          *)
(*   - the Launch Scheduler of the Audio role (AudioWorker.run) and of the *)
(*     Target role (TargetWorker._tick, scheduler and watchdog part),      *)
(*     checked under SpecSched;                                            *)
(*   - the per-role worker lock file (acquire_worker_lock and the          *)
(*     run_*_worker entry points), checked under SpecLock;                 *)
(*   - the coordination state file, the ui_active counter and the Notice   *)
(*     Coordinator (TargetWorker._tick, notice part), under SpecNotice;    *)
(*   - the Idle Monitor (SaverWorker._tick), under SpecSaver.              *)
(* Every specification leaves the variables of the other groups at their  *)
(* initial value; the state file st is shared by SpecNotice and SpecSaver. *)
(***************************************************************************)
EXTENDS Integers, Sequences, FiniteSets, TLC

VARIABLES
    \* ---- Launch Scheduler (SpecSched)
    role,       \* "audio" | "target": which worker class runs
    cfg,        \* the ConfigSnapshot fields the scheduler reads
    w,          \* the worker object's fields (self.proc, self.external_pid, ...)
    os,         \* the OS process table: pid -> [st, win, kind]
    ev,         \* what the last tick did (history, overwritten by each step)
    hist,       \* history across ticks: per-epoch launch count, cooldown at scheduling
    \* ---- worker lock file (SpecLock)
    lrole,      \* the worker role whose processes are started
    lock,       \* <role>_worker.lock: NoFile, or the pid it records
    lp,         \* worker process (by pid) -> [pc, seen, verdict, touched]
    lockBy,     \* the process that last wrote or removed the lock file
    \* ---- coordination state file (SpecNotice, SpecSaver)
    st,         \* notice_state.json: [ui_active, saver_active, saver_trigger_at, ...]
    \* ---- Notice Coordinator (SpecNotice)
    qt,         \* whether QWidget.setWindowFlags hides a shown window
    ncfg,       \* the ConfigSnapshot fields the coordinator reads
    nt,         \* the TargetWorker's notice fields and its NoticeWindow
    nev,        \* what the last coordinator tick read (history)
    stands,     \* a dismissal by the user stands: no re-exposure condition
                \* has held since it (history)
    \* ---- Idle Monitor (SpecSaver)
    scfg,       \* the ConfigSnapshot fields the saver reads
    sv,         \* the SaverWorker's fields and its SaverWindow
    sev,        \* what the last saver tick sampled, and the state before it
    \* ---- the state file at the level of file operations (SpecFile)
    sf,         \* notice_state.json: [kind, d, len]
    tmp,        \* notice_state.json.tmp: its text and who has it open
    fp,         \* writer process -> [pc, keys, state]
    fev,        \* what the last file step did
    \* ---- the poll loops' timing (SpecPoll)
    pl,         \* [worker, poll_sec, timer, path, delay, ticked]
    \* ---- the configuration file (SpecConfig)
    cf,         \* [primary, alt, ev]: config.json in WORK_DIR and in the
                \* configured work_dir, and what the last load_config did
    \* ---- the UI's worker supervisor (SpecSuper)
    sup,        \* [is_running, saver]: MainWindow.is_running and whether
                \* ProcessManager holds a live saver worker process
    \* ---- config.json while it is being saved (SpecSave)
    cs,         \* [file, ui, saved, wk, ev]: the file, the UI's save_config
                \* in progress, the last snapshot saved whole, the worker's
                \* signature and process, and what its last tick did
    \* ---- the UI's interactive windows (SpecUi)
    ui          \* [vis, minimized, _ui_active, work_dir, _work_dir,
                \*  state_dir, files, ev]

schedVars == <<role, cfg, w, os, ev, hist>>
lockVars == <<lrole, lock, lp, lockBy>>
noticeVars == <<qt, ncfg, nt, nev, stands>>
saverVars == <<scfg, sv, sev>>
fileVars == <<sf, tmp, fp, fev>>

vars == <<schedVars, lockVars, st, noticeVars, saverVars, fileVars, pl, cf, sup, cs, ui>>

\* What the actions of one specification leave unchanged.
nonSchedVars == <<lockVars, st, noticeVars, saverVars, fileVars, pl, cf, sup, cs, ui>>
nonLockVars == <<schedVars, st, noticeVars, saverVars, fileVars, pl, cf, sup, cs, ui>>
nonNoticeVars == <<schedVars, lockVars, saverVars, fileVars, pl, cf, sup, cs, ui>>
nonSaverVars == <<schedVars, lockVars, noticeVars, fileVars, pl, cf, sup, cs, ui>>
nonFileVars == <<schedVars, lockVars, st, noticeVars, saverVars, pl, cf, sup, cs, ui>>
nonPollVars == <<schedVars, lockVars, st, noticeVars, saverVars, fileVars, cf, sup, cs, ui>>
nonConfigVars == <<schedVars, lockVars, st, noticeVars, saverVars, fileVars, pl, sup, cs, ui>>
nonSuperVars == <<schedVars, lockVars, noticeVars, fileVars, pl, cf, cs, ui>>
nonSaveVars == <<schedVars, lockVars, st, noticeVars, saverVars, fileVars, pl, cf, sup, ui>>
nonUiVars == <<schedVars, lockVars, st, noticeVars, saverVars, fileVars, pl, cf, sup, cs>>

-----------------------------------------------------------------------------
(* Bounds of the model                                                     *)
MaxPid == 2
MaxCfgChanges == 1
MaxWorkers == 3
MaxUi == 1
MaxTrig == 1
MaxIdle == 4
MaxWrites == 3
\* The directories the settings window can choose as work_dir.
MaxDirs == 2
\* The largest ui_active a state file is let to reach by show events.
MaxUiCount == 3

-----------------------------------------------------------------------------
(* Values                                                                  *)

\* None for an Optional[int] pid (self.proc, self.external_pid).
NoPid == 0
\* None for an Optional[float] time (pending_launch_at, missing_window_since).
NoTime == 0 - 1
\* None for last_config_signature.
NoSig == <<>>
\* The watchdog's grace window, in seconds.
GraceSec == 2

Pids == 1..MaxPid
\* relaunch cooldowns and start delays, in poll intervals (seconds)
Cooldowns == {1, 3}
Delays == {0, 1}

Max(a, b) == IF a >= b THEN a ELSE b

\* time.time() at a tick.  The code compares only differences of stored
\* timestamps with the current time, so time is measured from a moving
\* origin: at every tick the current time is Now, and the timestamps stored
\* by earlier ticks have become one poll interval older (Elapse).  A
\* timestamp that is Now or more in the past is kept as 0, the value the
\* fields start with: time.time() is far larger than every cooldown, so
\* that the age of 0.0 exceeds every threshold it is compared with.
Now == CHOOSE c \in Cooldowns : \A d \in Cooldowns : d <= c

\* The fields of AppConfig read by a role's scheduler.  pwa stands for
\* launch_mode == "pwa" and a non-empty app id (Audio only).
Configs(r) ==
    [enabled : BOOLEAN, once : BOOLEAN, delay : Delays, cooldown : Cooldowns,
     pwa : IF r = "audio" THEN BOOLEAN ELSE {FALSE}]

\* config_signature: URL set and window mode are not varied by the model.
Sig(c) == <<c.delay, c.cooldown, c.enabled, c.once>>

FreeProc == [st |-> "free", win |-> FALSE, kind |-> "profile"]
DeadProc == [st |-> "dead", win |-> FALSE, kind |-> "profile"]

NoEv ==
    [tick |-> FALSE, outcome |-> "env", scanned |-> "none",
     found |-> {}, foundVis |-> {}, since |-> 0, due |-> FALSE,
     launched |-> FALSE, term |-> {}, cleared |-> NoPid,
     sched |-> "none", schedLive |-> FALSE]

-----------------------------------------------------------------------------
(* The OS Window Inspector and Process Launcher                            *)

RECURSIVE SortedSeq(_)
SortedSeq(S) ==
    IF S = {} THEN <<>>
    ELSE LET m == CHOOSE x \in S : \A y \in S : x <= y
         IN <<m>> \o SortedSeq(S \ {m})

SeqSet(q) == {q[i] : i \in 1..Len(q)}

\* proc.poll() is None, os-level liveness of a pid.
PidAlive(o, p) == p # NoPid /\ o[p].st = "alive"

find_window_handles_by_pid(o, p) == PidAlive(o, p) /\ o[p].win

find_chrome_processes_by_profile(o) ==
    SortedSeq({p \in Pids : o[p].st = "alive" /\ o[p].kind = "profile"})

find_chrome_processes_by_app_id(o) ==
    SortedSeq({p \in Pids : o[p].st = "alive" /\ o[p].kind = "appid"})

VisibleOf(o, q) == SelectSeq(q, LAMBDA p : find_window_handles_by_pid(o, p))

\* taskkill /PID p /T /F, Popen.terminate()
terminate_process(o, p) ==
    IF PidAlive(o, p) THEN [o EXCEPT ![p] = DeadProc] ELSE o

RECURSIVE TerminateAll(_, _)
TerminateAll(o, S) ==
    IF S = {} THEN o
    ELSE LET p == CHOOSE x \in S : TRUE
         IN TerminateAll(terminate_process(o, p), S \ {p})

FreePids(o) == {p \in Pids : o[p].st = "free"}
NextPid(o) == CHOOSE p \in FreePids(o) : \A q \in FreePids(o) : p <= q

\* subprocess.Popen of a browser: a new process whose window appears later.
Spawned(o, kind) ==
    [o EXCEPT ![NextPid(o)] = [st |-> "alive", win |-> FALSE, kind |-> kind]]

-----------------------------------------------------------------------------
(* The coordination state file and the windows of the notice and the saver *)

\* Times of the coordinator, in tenths of a second.
UiHoldTenths == 5
SaverHoldTenths == 8
\* max(poll_sec, 0.2): the timer interval of a run
Polls == {2, 5}

\* The state file: absent keys read as 0, so the empty file is the record
\* of zeros.  saver_trigger_at counts the saver's triggers (a timestamp that
\* only grows); notice_dismissed_at is kept as "is > 0".
EmptyState ==
    [ui_active |-> 0, saver_active |-> FALSE, saver_trigger_at |-> 0,
     notice_dismissed_at |-> FALSE]

read_notice_state(f) == f

\* state.update(updates), written to a temp file and renamed.
write_notice_state(f, updates) ==
    [k \in DOMAIN f |-> IF k \in DOMAIN updates THEN updates[k] ELSE f[k]]

ClampAtZero_None(x) == x

\* max(0, current + delta)
ClampAtZero(x) == Max(0, x)

update_notice_state_counter(f, key, delta) ==
    [f EXCEPT ![key] = ClampAtZero(read_notice_state(f)[key] + delta)]

\* NoticeWindow: visible, _interaction_locked, WindowStaysOnTopHint set.
InitWin == [vis |-> FALSE, locked |-> FALSE, top |-> TRUE]

\* QWidget.setWindowFlags with the stay-on-top hint changed to `top`.  When
\* Qt hides the shown window for it, hideEvent runs inside the call:
\* set_interaction_lock(False).
setWindowFlags(win, top, hides) ==
    IF win.vis /\ hides
    THEN [vis |-> FALSE, locked |-> FALSE, top |-> top]
    ELSE [win EXCEPT !.top = top]

\* NoticeWindow.set_interaction_lock (the worker's window is no preview):
\* the hint is added when locking without it, removed when unlocking with it.
set_interaction_lock(win, locked, hides) ==
    LET w1 == [win EXCEPT !.locked = locked]
    IN  IF w1.top # locked THEN setWindowFlags(w1, locked, hides) ELSE w1

\* A hide that leaves the window as it is.
hide_Nothing(win) == win

\* QWidget.hide: a shown window gets hideEvent, set_interaction_lock(False).
hide(win) ==
    IF win.vis
    THEN set_interaction_lock([win EXCEPT !.vis = FALSE], FALSE, FALSE)
    ELSE win

\* NoticeWindow.show_centered: show(), raise, set_interaction_lock(True).
show_centered(win, hides) ==
    set_interaction_lock([win EXCEPT !.vis = TRUE], TRUE, hides)

NoticeConfigs ==
    [notice_enabled : BOOLEAN, saver_enabled : BOOLEAN,
     notice_repeat_enabled : BOOLEAN, poll : Polls]

\* TargetWorker.__init__, the notice fields.  ui_flip_age and saver_flip_age
\* are history: the time since the tick that last saw the flag change,
\* counted up to the length of the hold.  after_trigger is history too: 1
\* when a tick has cleared a dismissal for a newer saver_trigger_at and the
\* notice has not been visible since, 2 when a tick has since taken the show
\* branch and ended with the notice hidden.  after_reenable is the same for
\* a dismissal cleared because the notice was enabled again.
InitNt(f, c) ==
    [win |-> InitWin,
     notice_dismissed |-> FALSE,
     last_notice_enabled |-> c.notice_enabled,
     last_saver_trigger_at |-> read_notice_state(f).saver_trigger_at,
     pending_notice_after_saver |-> FALSE,
     last_interaction_lock |-> "none",
     last_saver_active |-> FALSE,
     saver_release_hold |-> 0,
     last_ui_active |-> FALSE,
     ui_release_hold |-> 0,
     ui_flip_age |-> UiHoldTenths,
     saver_flip_age |-> SaverHoldTenths,
     after_trigger |-> 0,
     after_reenable |-> 0]

NoNev ==
    [tick |-> FALSE, ui_active |-> FALSE, saver_active |-> FALSE,
     hold |-> FALSE, dismissed |-> FALSE, clamped |-> FALSE,
     visible_before |-> FALSE, elapsed |-> FALSE, after_trigger |-> 0,
     after_reenable |-> 0]

NoticeIdle ==
    /\ qt = FALSE
    /\ ncfg = [notice_enabled |-> TRUE, saver_enabled |-> FALSE,
               notice_repeat_enabled |-> FALSE, poll |-> 5]
    /\ nt = InitNt(EmptyState, ncfg)
    /\ nev = NoNev
    /\ stands = FALSE

\* idle_to_show_sec and active_threshold_sec as the settings window lets
\* them be set (1..3600 and 0.1..60), and the sampled idle time, in seconds.
IdleToShows == {2, 4}
ActiveThresholds == {1, 3}
Idles == 0..MaxIdle

SaverConfigs ==
    [saver_enabled : BOOLEAN, idle_to_show_sec : IdleToShows,
     active_threshold_sec : ActiveThresholds]

\* SaverWorker.__init__: saver_visible, the SaverWindow's visibility, and
\* whether saver_start_delay_sec has passed since started_at.
InitSv == [saver_visible |-> FALSE, win_vis |-> FALSE, started |-> FALSE]

NoSev == [tick |-> FALSE, idle |-> 0, sv |-> InitSv, st |-> EmptyState]

SaverIdle ==
    /\ scfg = [saver_enabled |-> TRUE, idle_to_show_sec |-> 4,
               active_threshold_sec |-> 1]
    /\ sv = InitSv
    /\ sev = NoSev

-----------------------------------------------------------------------------
(* The per-role worker lock file.                                          *)

NoFile == 0
Workers == 1..MaxWorkers

InitLp == [pc |-> "new", seen |-> NoFile, verdict |-> "unset", touched |-> FALSE]

\* The values of the lock variables in the specifications that do not use them.
LockIdle ==
    /\ lrole = "audio"
    /\ lock = NoFile
    /\ lp = [p \in Workers |-> InitLp]
    /\ lockBy = NoFile

\* A worker process exists from its start until it exits or is killed.
ProcRunning(l, p) ==
    p \in Workers /\ l[p].pc \in {"exists", "read", "check", "remove", "write", "running"}

\* A liveness test that takes every recorded pid for a dead one.
pid_is_running_Never(l, pid) == FALSE

\* _pid_is_running
pid_is_running(l, pid) == pid > 0 /\ ProcRunning(l, pid)

\* The worker roles whose entry point takes the lock: run_audio_worker does,
\* run_target_worker and run_saver_worker do not.
TakesLock(r) == r = "audio"

-----------------------------------------------------------------------------
(* The state file at the level of file operations: the JSON text of         *)
(* notice_state.json, its temp file, and the processes that write them.     *)

\* The fields that are read back (notice_last_shown_at is only written).
StateKeys ==
    {"ui_active", "saver_active", "saver_trigger_at", "notice_dismissed_at"}

\* A field value that is no number, such as "abc".
Malformed == 0 - 2

EmptyDict == [k \in {} |-> 0]

\* state.get(key, 0)
Get(d, k) == IF k \in DOMAIN d THEN d[k] ELSE 0

\* state.update(updates)
Updated(d, u) ==
    [k \in DOMAIN d \cup DOMAIN u |-> IF k \in DOMAIN u THEN u[k] ELSE d[k]]

\* The length of a key's name.
KeyLen ==
    [ui_active |-> 9, saver_active |-> 12, saver_trigger_at |-> 16,
     notice_dismissed_at |-> 19]

\* The length of a value's JSON text: the counter is an int below 10, the
\* flags are 0.0 or 1.0, a time.time() value has 17 characters, and the
\* malformed value is a string of three letters in quotes.
ValLen(k, v) ==
    IF v = Malformed THEN 5
    ELSE IF k = "ui_active" THEN 1
    ELSE IF k = "saver_active" \/ v = 0 THEN 3
    ELSE 17

RECURSIVE ItemsLen(_, _)
ItemsLen(d, S) ==
    IF S = {} THEN 0
    ELSE LET k == CHOOSE x \in S : TRUE
         IN  KeyLen[k] + 6 + ValLen(k, d[k]) + ItemsLen(d, S \ {k})

\* len(json.dumps(state)): {"key": value, "key": value}
TextLen(d) == IF DOMAIN d = {} THEN 2 ELSE ItemsLen(d, DOMAIN d)

\* A file: absent ("none"), open and truncated ("empty"), the JSON text of a
\* dictionary ("json"), JSON text of something else ("nondict"), or text
\* that does not parse ("bad").  len is the length of the text.
NoText == [kind |-> "none", d |-> EmptyDict, len |-> 0]
EmptyText == [kind |-> "empty", d |-> EmptyDict, len |-> 0]
JsonText(d) == [kind |-> "json", d |-> d, len |-> TextLen(d)]
BadText(n) == [kind |-> "bad", d |-> EmptyDict, len |-> n]
NonDictText == [kind |-> "nondict", d |-> EmptyDict, len |-> 2]

\* read_notice_state on the file: the dictionary, or {} when the file is
\* missing, does not parse or holds no dictionary.
ReadStateFile(file) == IF file.kind = "json" THEN file.d ELSE EmptyDict

\* file.write(text) at offset 0 of a file opened with "w", after which the
\* file holds `old`: the text replaces the first len(text) characters.
Overwritten(old, d) ==
    IF old.len <= TextLen(d) THEN JsonText(d) ELSE BadText(old.len)

\* The processes that write the state file, the fields each one writes and
\* the updates each one makes.
Writers == {"ui", "saver", "notice"}

Owned(p) ==
    IF p = "ui" THEN {"ui_active"}
    ELSE IF p = "saver" THEN {"saver_active", "saver_trigger_at"}
    ELSE {"notice_dismissed_at"}

WriterOps(p) ==
    IF p = "ui" THEN {"inc", "dec"}
    ELSE IF p = "saver" THEN {"activate", "deactivate"}
    ELSE {"dismiss", "shown"}

\* The keyword arguments of write_notice_state.  t is time.time() for the
\* trigger, which is compared with earlier ones; the other times are 1.
UpdatesOf(op, t) ==
    IF op = "activate" THEN [saver_active |-> 1, saver_trigger_at |-> t]
    ELSE IF op = "deactivate" THEN [saver_active |-> 0]
    ELSE IF op = "dismiss" THEN [notice_dismissed_at |-> 1]
    ELSE [notice_dismissed_at |-> 0]

InitFp == [pc |-> "idle", keys |-> {}, state |-> EmptyDict]

NoFev ==
    [p |-> "none", step |-> "none", raw |-> "none", error |-> "none",
     clock |-> 1, writes |-> 0]

FileIdle ==
    /\ sf = NoText
    /\ tmp = [text |-> NoText, open |-> {}]
    /\ fp = [p \in Writers |-> InitFp]
    /\ fev = NoFev

-----------------------------------------------------------------------------
(* The timing of the poll loops, in tenths of a second.                     *)

\* The floor of the poll interval: 0.2 s.
MinPollTenths == 2

\* Values of poll_sec in the configuration file.
PollSecs == {0, 1, 2, 3, 5, 10}

\* max(self.cfg.poll_sec, 0.2)
ClampedPoll(poll_sec) == Max(poll_sec, MinPollTenths)

\* The paths through one iteration of AudioWorker.run.
AudioPaths == {"disabled", "adopted", "once_skip", "normal"}

\* A worker before its first tick: QTimer.start(int(max(poll_sec, 0.2) *
\* 1000)) for the target and the saver worker; AudioWorker.run has no timer.
InitPl(worker, poll_sec) ==
    [worker |-> worker, poll_sec |-> poll_sec,
     timer |-> IF worker = "audio" THEN 0 ELSE ClampedPoll(poll_sec),
     path |-> "none", delay |-> 0, ticked |-> FALSE]

PollIdle == pl = InitPl("audio", 5)

-----------------------------------------------------------------------------
(* The configuration file.                                                  *)

\* The snapshots that are told apart: id names the settings (0 for the
\* defaults), has_hash says whether password_hash is set, and elsewhere
\* whether work_dir differs from WORK_DIR.
MaxCfgId == 1

Snapshots == [id : 0..MaxCfgId, has_hash : BOOLEAN, elsewhere : BOOLEAN]

\* AppConfig()
DefaultSnapshot == [id |-> 0, has_hash |-> FALSE, elsewhere |-> FALSE]

\* A config.json: absent, text that is not JSON ("unparsable"), JSON that
\* AppConfig.from_dict rejects ("badfields"), or a stored snapshot.
AbsentConfig == [kind |-> "absent", data |-> DefaultSnapshot]
BrokenConfigs == {[kind |-> k, data |-> DefaultSnapshot] : k \in {"unparsable", "badfields"}}
StoredConfig(c) == [kind |-> "ok", data |-> c]
ConfigFiles == {AbsentConfig} \cup BrokenConfigs \cup {StoredConfig(c) : c \in Snapshots}

NoCev ==
    [loaded |-> FALSE, cfg |-> DefaultSnapshot, logged |-> FALSE,
     raised |-> FALSE, primary |-> AbsentConfig, alt |-> AbsentConfig]

ConfigIdle == cf = [primary |-> AbsentConfig, alt |-> AbsentConfig, ev |-> NoCev]

\* The snapshots the settings window saves: they carry a password hash and
\* live in WORK_DIR.  id stands for the fields of the config signature.
SavedSnapshots == {c \in Snapshots : c.has_hash /\ ~c.elsewhere}

\* A config.json opened with mode "w" and not yet written: empty text, which
\* json.load rejects.
TruncatedConfig == [kind |-> "unparsable", data |-> DefaultSnapshot]

\* The worker's config_signature of a snapshot.
config_signature(c) == <<c.id>>

\* TargetWorker.__init__ / AudioWorker.__init__: last_config_signature is
\* None and no process is owned.  intact is history: the signature was
\* taken from a snapshot that had been saved.
InitWk == [last_config_signature |-> NoSig, proc |-> FALSE, intact |-> TRUE]

\* The workers whose ticks check the config signature.
SigWorkers == {"audio", "target"}

NoCsEv ==
    [tick |-> FALSE, role |-> "audio", cfg |-> DefaultSnapshot, prev |-> DefaultSnapshot,
     next |-> DefaultSnapshot, saving |-> FALSE, stopped |-> FALSE,
     intact |-> TRUE]

InitCs(c) ==
    [file |-> StoredConfig(c), ui |-> [pc |-> "idle", data |-> c],
     saved |-> c, wk |-> [r \in SigWorkers |-> InitWk], ev |-> NoCsEv]

SaveIdle == cs = InitCs([DefaultSnapshot EXCEPT !.has_hash = TRUE])

\* The interactive windows of the UI process, and the directories work_dir
\* can name: the default WORK_DIR and those chosen in the settings window.
UiWindows == {"settings", "password", "warning"}
WORK_DIR == 0
WorkDirs == WORK_DIR..MaxDirs

\* MainWindow.__init__: no window is shown, _ui_active is False, and
\* ui_active = 0.0 is written to the state file of cfg.work_dir.  _work_dir
\* is what each dialog was constructed with.  state_dir is the directory
\* load_config gives the workers, whose state file the coordinator reads:
\* WORK_DIR, which the UI starts with, since save_config writes a changed
\* work_dir to the config.json of the new directory and load_config starts
\* from the one in WORK_DIR.  vis is a window being on screen; the minimized
\* settings window is visible to Qt and not on screen.
InitUi(d) ==
    [vis |-> [x \in UiWindows |-> FALSE],
     minimized |-> FALSE,
     _ui_active |-> FALSE,
     work_dir |-> d,
     _work_dir |-> [x \in {"password", "warning"} |-> d],
     state_dir |-> d,
     files |-> [e \in WorkDirs |-> EmptyState],
     ev |-> [kind |-> "start", window |-> "settings"]]

UiIdle == ui = InitUi(WORK_DIR)

\* The workers are running and the supervisor leaves them alone.
SupIdle == sup = [is_running |-> TRUE, saver |-> TRUE]

-----------------------------------------------------------------------------
(* The Launch Scheduler.  A tick works on s = [w, os, ev, hist].           *)

AudioStopProc(s) ==
    LET o1 == IF PidAlive(s.os, s.w.proc)
              THEN terminate_process(s.os, s.w.proc) ELSE s.os
        o2 == IF s.w.ext # NoPid THEN terminate_process(o1, s.w.ext) ELSE o1
        t1 == IF PidAlive(s.os, s.w.proc) THEN {s.w.proc} ELSE {}
        t2 == IF s.w.ext # NoPid THEN {s.w.ext} ELSE {}
    IN [s EXCEPT !.os = o2, !.w.proc = NoPid, !.w.ext = NoPid,
                 !.w.pending = NoTime, !.ev.term = @ \cup t1 \cup t2]

\* A stop that forgets the adopted pid only and keeps the owned handle.
TargetStopProc_KeepProc(s) == [s EXCEPT !.w.ext = NoPid]

TargetStopProc(s) ==
    LET o1 == IF PidAlive(s.os, s.w.proc)
              THEN terminate_process(s.os, s.w.proc) ELSE s.os
        t1 == IF PidAlive(s.os, s.w.proc) THEN {s.w.proc} ELSE {}
    IN [s EXCEPT !.os = o1, !.w.proc = NoPid, !.w.ext = NoPid,
                 !.ev.term = @ \cup t1]

StopProc(r, s) == IF r = "audio" THEN AudioStopProc(s) ELSE TargetStopProc(s)

\* A process the worker holds a handle or an adopted pid for is alive.
KnownLive(s) == PidAlive(s.os, s.w.proc) \/ PidAlive(s.os, s.w.ext)

\* Step 1: the config signature check.
SigCheck(r, s, c, t) ==
    IF s.w.sig = NoSig
    THEN [s EXCEPT !.w.sig = Sig(c)]
    ELSE IF Sig(c) # s.w.sig
    THEN LET s1 == [s EXCEPT !.w.sig = Sig(c),
                             !.hist.epochLaunches = 0,
                             !.hist.epochAdopted = FALSE]
         IN IF PidAlive(s1.os, s1.w.proc)
            THEN LET s2 == StopProc(r, s1)
                 IN [s2 EXCEPT !.w.pending = t + c.delay,
                               !.w.last_launch = 0,
                               !.w.once_launched = FALSE,
                               !.hist.schedCd = c.cooldown,
                               !.ev.sched = "sig",
                               !.ev.schedLive = KnownLive(s2)]
            ELSE s1
    ELSE s

\* Step 2: the role is disabled.
Disabled(r, s) ==
    [StopProc(r, s) EXCEPT !.w.pending = NoTime, !.w.ext = NoPid,
                           !.w.once_launched = FALSE,
                           !.ev.outcome = "disabled",
                           !.hist.missPid = NoPid, !.hist.missSpan = 0]

\* Step 3: an existing process is adopted; the tick ends.
Adopt(s, p, t) ==
    [s EXCEPT !.w.ext = p, !.w.last_launch = t, !.w.pending = NoTime,
              !.w.once_launched = TRUE, !.ev.outcome = "adopted",
              !.hist.epochAdopted = TRUE]

\* Duplicates: the process kept among those a profile scan found.
KeepPid(o, existing) ==
    LET visible == VisibleOf(o, existing)
    IN IF visible # <<>> THEN visible[1] ELSE existing[1]

\* Scheduling that does not wait for the cooldown.
CooldownElapsed_NoWait(t, last, cd) == TRUE

CooldownElapsed(t, last, cd) == t - last >= cd

\* Steps 4 and 5: the once policy, then scheduling after the cooldown.
Schedule(s, c, t) ==
    IF c.once /\ s.w.once_launched
    THEN [s EXCEPT !.ev.outcome = "once_skip"]
    ELSE IF CooldownElapsed(t, s.w.last_launch, c.cooldown)
            /\ s.w.pending = NoTime
    THEN [s EXCEPT !.w.pending = t + c.delay, !.hist.schedCd = c.cooldown,
                   !.ev.sched = "step5", !.ev.schedLive = KnownLive(s)]
    ELSE s

Scanned(s, kind, existing, t) ==
    [s EXCEPT !.ev.scanned = kind, !.ev.found = SeqSet(existing),
              !.ev.foundVis = SeqSet(VisibleOf(s.os, existing)),
              !.ev.since = t - s.w.last_launch,
              !.ev.due = (s.w.pending # NoTime /\ t >= s.w.pending)]

\* AudioWorker.run, the branch taken when no live owned process is known.
\* The scan's result is the element of a one-element set: the process list
\* is read once.
AudioScan(s, c, t) ==
    IF c.pwa
    THEN CHOOSE r \in
           {LET visible == VisibleOf(s.os, existing)
                s1 == Scanned(s, "appid", existing, t)
            IN IF visible # <<>> THEN Adopt(s1, visible[1], t)
               ELSE IF existing # <<>>
                       /\ t - s.w.last_launch < c.cooldown
               THEN Adopt(s1, existing[1], t)
               ELSE Schedule(s1, c, t) :
              existing \in {find_chrome_processes_by_app_id(s.os)}} : TRUE
    ELSE CHOOSE r \in
           {LET s1 == Scanned(s, "profile", found, t)
                keep_pid == KeepPid(s.os, found)
                others == SeqSet(found) \ {keep_pid}
                s2 == IF Len(found) > 1
                      THEN [s1 EXCEPT !.os = TerminateAll(s.os, others),
                                      !.ev.term = @ \cup others]
                      ELSE s1
                existing == IF Len(found) > 1 THEN <<keep_pid>> ELSE found
            IN IF existing # <<>> THEN Adopt(s2, existing[1], t)
               ELSE Schedule(s2, c, t) :
              found \in {find_chrome_processes_by_profile(s.os)}} : TRUE

\* TargetWorker._tick, the branch taken when no live owned process is known.
TargetScan(s, c, t) ==
    CHOOSE r \in
        {LET existing == VisibleOf(s.os, found)
             s1 == Scanned(s, "profile", found, t)
         IN IF existing # <<>> THEN Adopt(s1, existing[1], t)
            ELSE Schedule(s1, c, t) :
           found \in {find_chrome_processes_by_profile(s.os)}} : TRUE

\* The outcomes of the Process Launcher: a PWA process, a Chrome process
\* with the role's profile directory, or no handle.
LaunchResults(r, c, o) ==
    {"fail"} \cup (IF FreePids(o) = {} THEN {}
                   ELSE IF r = "audio" /\ c.pwa THEN {"pwa", "chrome"}
                   ELSE {"chrome"})

\* Step 6: the launch, once the pending time is due.
Launch(r, s, c, t, res) ==
    IF s.w.pending # NoTime /\ t >= s.w.pending
    THEN LET o1 == IF res = "fail" THEN s.os
                   ELSE Spawned(s.os, IF res = "pwa" THEN "appid" ELSE "profile")
             p == IF res = "fail" THEN NoPid ELSE NextPid(s.os)
             n == IF s.hist.epochLaunches < 2 THEN s.hist.epochLaunches + 1 ELSE 2
         IN [s EXCEPT !.os = o1, !.w.proc = p, !.w.last_launch = t,
                      !.w.pending = NoTime, !.w.once_launched = TRUE,
                      !.w.missing_since = IF r = "target" THEN NoTime ELSE @,
                      !.ev.launched = TRUE,
                      !.ev.since = t - s.w.last_launch,
                      !.hist.epochLaunches = n]
    ELSE s

\* One iteration of AudioWorker.run.  The state after each stage is the
\* element of a one-element set: the stage is computed once, as the
\* statements of the loop body run once.
AudioTick(s0, c, t, res) ==
    CHOOSE s3 \in
        {IF s2.ev.outcome \in {"disabled", "adopted", "once_skip"} THEN s2
         ELSE Launch("audio", s2, c, t, res) :
           s2 \in {IF ~c.enabled THEN Disabled("audio", s1)
                   ELSE IF ~PidAlive(s1.os, s1.w.proc)
                   THEN AudioScan(s1, c, t) ELSE s1 :
                      s1 \in {SigCheck("audio", s0, c, t)}}} : TRUE

\* The Window Watchdog of the Target role.
CurrentPid(s) == IF PidAlive(s.os, s.w.proc) THEN s.w.proc ELSE s.w.ext

\* The history keeps the pid whose window the watchdog has found missing on
\* every iteration of late (missPid), and the time these observations span
\* (missSpan, counted up to GraceSec).
Watchdog(s, t) ==
    LET pid == CurrentPid(s)
        missing == [s EXCEPT !.hist.missPid = pid,
                             !.hist.missSpan =
                                 IF s.hist.missPid # pid THEN 0
                                 ELSE IF @ < GraceSec THEN @ + 1 ELSE @]
        none == [s EXCEPT !.hist.missPid = NoPid, !.hist.missSpan = 0]
    IN IF pid # NoPid
       THEN IF find_window_handles_by_pid(s.os, pid)
            THEN [none EXCEPT !.w.missing_since = NoTime]
            ELSE IF s.w.missing_since = NoTime
            THEN [missing EXCEPT !.w.missing_since = t]
            ELSE IF t - s.w.missing_since >= GraceSec
            THEN [TargetStopProc(none) EXCEPT !.w.missing_since = NoTime,
                                              !.ev.cleared = pid]
            ELSE missing
       ELSE none

\* TargetWorker._tick: signature check, then the scheduler and the watchdog.
TargetTick(s0, c, t, res) ==
    CHOOSE s4 \in
        {IF s3.ev.outcome \in {"disabled", "adopted", "once_skip"} THEN s3
         ELSE Launch("target", s3, c, t, res) :
           s3 \in {IF ~c.enabled \/ PidAlive(s2.os, s2.w.proc) THEN s2
                   ELSE TargetScan(s2, c, t) :
                      s2 \in {IF ~c.enabled THEN Disabled("target", s1)
                              ELSE Watchdog(s1, t) :
                                 s1 \in {SigCheck("target", s0, c, t)}}}} : TRUE

RoleTick(r, s, c, t, res) ==
    IF r = "audio" THEN AudioTick(s, c, t, res) ELSE TargetTick(s, c, t, res)

-----------------------------------------------------------------------------
(* SpecSched: one role's worker, its configuration and the OS.             *)

InitW ==
    [proc |-> NoPid, ext |-> NoPid, last_launch |-> 0, pending |-> NoTime,
     sig |-> NoSig, once_launched |-> FALSE, missing_since |-> NoTime]

InitHist == [epochLaunches |-> 0, epochAdopted |-> FALSE, schedCd |-> 0,
             cfgChanges |-> 0, attempts |-> 0, missPid |-> NoPid,
             missSpan |-> 0]

InitSched ==
    /\ UiIdle
    /\ SaveIdle
    /\ SupIdle
    /\ LockIdle
    /\ st = EmptyState
    /\ FileIdle
    /\ PollIdle
    /\ ConfigIdle
    /\ NoticeIdle
    /\ SaverIdle
    /\ role \in {"audio", "target"}
    /\ cfg \in Configs(role)
    /\ w = InitW
    /\ os = [p \in Pids |-> FreeProc]
    /\ ev = NoEv
    /\ hist = InitHist

\* time.sleep(poll) has passed since the previous iteration.
Elapse(x) ==
    [x EXCEPT !.last_launch = Max(@ - 1, 0),
              !.pending = IF @ = NoTime THEN NoTime ELSE Max(@ - 1, Now),
              !.missing_since = IF @ = NoTime THEN NoTime ELSE Max(@ - 1, 0)]

\* One poll-loop iteration.  With counting, the history also keeps the
\* parity of the number of launch attempts, which tells an attempt from the
\* one before it.
PollLoop(counting) ==
    /\ \E res \in LaunchResults(role, cfg, os) :
          LET s0 == [w |-> Elapse(w), os |-> os, hist |-> hist,
                     ev |-> [NoEv EXCEPT !.tick = TRUE,
                                         !.outcome = "run"]]
          IN \E s \in {RoleTick(role, s0, cfg, Now, res)} :
                /\ w' = s.w
                /\ os' = s.os
                /\ ev' = s.ev
                /\ hist' = IF counting /\ s.ev.launched
                           THEN [s.hist EXCEPT !.attempts = 1 - @]
                           ELSE s.hist
    /\ UNCHANGED <<role, cfg, nonSchedVars>>

SchedTick == PollLoop(FALSE)

\* The identity the role's scan looks for: the PWA app id, or the role's
\* profile directory.
ScannedKind(c) == IF c.pwa THEN "appid" ELSE "profile"

\* A browser process with the role's identity is started by someone else.
ExtSpawn ==
    /\ FreePids(os) # {}
    /\ \E v \in BOOLEAN :
          os' = [os EXCEPT ![NextPid(os)] =
                    [st |-> "alive", win |-> v, kind |-> ScannedKind(cfg)]]
    /\ ev' = NoEv
    /\ UNCHANGED <<role, cfg, w, hist, nonSchedVars>>

\* A process's top-level window appears or disappears.
WinChange ==
    /\ \E p \in Pids :
          /\ os[p].st = "alive"
          /\ os' = [os EXCEPT ![p].win = ~@]
    /\ ev' = NoEv
    /\ UNCHANGED <<role, cfg, w, hist, nonSchedVars>>

\* A process exits (closed by the user, or crashed).
ProcExit ==
    /\ \E p \in Pids :
          /\ os[p].st = "alive"
          /\ os' = [os EXCEPT ![p] = DeadProc]
    /\ ev' = NoEv
    /\ UNCHANGED <<role, cfg, w, hist, nonSchedVars>>

\* The settings UI saves a configuration that differs in one field (every
\* widget change is saved on its own).  The launch mode of the Audio role is
\* the one the worker started with.
OneFieldApart(c, d) ==
    /\ Cardinality({f \in DOMAIN c : c[f] # d[f]}) = 1
    /\ c.pwa = d.pwa

ConfigChange ==
    /\ hist.cfgChanges < MaxCfgChanges
    /\ \E c \in Configs(role) :
          /\ OneFieldApart(cfg, c)
          /\ cfg' = c
    /\ hist' = [hist EXCEPT !.cfgChanges = @ + 1]
    /\ ev' = NoEv
    /\ UNCHANGED <<role, w, os, nonSchedVars>>

NextSched == SchedTick \/ ExtSpawn \/ WinChange \/ ProcExit \/ ConfigChange

SpecSched == InitSched /\ [][NextSched]_vars

\* The worker under a configuration that is not edited, with launch attempts
\* counted.  The poll loop never blocks: every iteration ends in
\* time.sleep(poll) and starts again, so an iteration that has something to
\* do is eventually run.
SchedTickCounted == PollLoop(TRUE)

NextSchedFair == SchedTickCounted \/ ExtSpawn \/ WinChange \/ ProcExit

SpecSchedFair ==
    InitSched /\ [][NextSchedFair]_vars /\ WF_vars(SchedTickCounted)

-----------------------------------------------------------------------------
(* SpecLock: worker processes of one role start, take the role's lock      *)
(* file step by step, run, and exit or are killed.                         *)

\* The values of the scheduler variables in the specifications that do not
\* use them.
SchedIdle ==
    /\ role = "audio"
    /\ cfg = [enabled |-> TRUE, once |-> FALSE, delay |-> 0, cooldown |-> 1,
              pwa |-> FALSE]
    /\ w = InitW
    /\ os = [p \in Pids |-> FreeProc]
    /\ ev = NoEv
    /\ hist = InitHist

InitLock ==
    /\ UiIdle
    /\ SaveIdle
    /\ SupIdle
    /\ SchedIdle
    /\ st = EmptyState
    /\ FileIdle
    /\ PollIdle
    /\ ConfigIdle
    /\ NoticeIdle
    /\ SaverIdle
    /\ lrole \in {"audio", "target", "saver"}
    /\ lock = NoFile
    /\ lp = [p \in Workers |-> InitLp]
    /\ lockBy = NoFile

\* main(): the process starts; run_audio_worker calls acquire_worker_lock,
\* run_target_worker and run_saver_worker construct their worker at once.
LStart(p) ==
    /\ lp[p].pc = "new"
    /\ lp' = [lp EXCEPT ![p].pc = IF TakesLock(lrole) THEN "exists" ELSE "running"]
    /\ UNCHANGED <<lrole, lock, lockBy, nonLockVars>>

\* os.path.exists(path)
LExists(p) ==
    /\ lp[p].pc = "exists"
    /\ lp' = [lp EXCEPT ![p].pc = IF lock # NoFile THEN "read" ELSE "write",
                        ![p].verdict = IF lock # NoFile THEN @ ELSE "nofile"]
    /\ UNCHANGED <<lrole, lock, lockBy, nonLockVars>>

\* open(path) and json.load: the recorded pid, or an exception (caught) when
\* the file is gone by now.
LRead(p) ==
    /\ lp[p].pc = "read"
    /\ lp' = IF lock # NoFile
             THEN [lp EXCEPT ![p].pc = "check", ![p].seen = lock]
             ELSE [lp EXCEPT ![p].pc = "write", ![p].verdict = "nofile"]
    /\ UNCHANGED <<lrole, lock, lockBy, nonLockVars>>

\* if _pid_is_running(pid): return None.  verdict records whether the process
\* of the recorded pid does run at this moment.
LCheck(p) ==
    /\ lp[p].pc = "check"
    /\ lp' = [lp EXCEPT
                ![p].pc = IF pid_is_running(lp, lp[p].seen) THEN "failed" ELSE "remove",
                ![p].verdict = IF ProcRunning(lp, lp[p].seen) THEN "alive" ELSE "stale"]
    /\ UNCHANGED <<lrole, lock, lockBy, nonLockVars>>

\* os.remove(path); the exception of a file already removed is caught.
LRemove(p) ==
    /\ lp[p].pc = "remove"
    /\ lp' = [lp EXCEPT ![p].pc = "write",
                        ![p].touched = @ \/ (lock # NoFile)]
    /\ lock' = NoFile
    /\ lockBy' = IF lock # NoFile THEN p ELSE lockBy
    /\ UNCHANGED <<lrole, nonLockVars>>

\* json.dump({"pid": os.getpid(), ...}); return path: the poll loop starts.
LWrite(p) ==
    /\ lp[p].pc = "write"
    /\ lp' = [lp EXCEPT ![p].pc = "running", ![p].touched = TRUE]
    /\ lock' = p
    /\ lockBy' = p
    /\ UNCHANGED <<lrole, nonLockVars>>

\* The worker ends by itself: release_worker_lock removes the file if there
\* is one (run_audio_worker's finally clause).
LExit(p) ==
    /\ lp[p].pc = "running"
    /\ lp' = [lp EXCEPT ![p].pc = "dead"]
    /\ lock' = IF TakesLock(lrole) THEN NoFile ELSE lock
    /\ lockBy' = IF TakesLock(lrole) /\ lock # NoFile THEN p ELSE lockBy
    /\ UNCHANGED <<lrole, nonLockVars>>

\* The worker is terminated (ProcessManager.stop): nothing is cleaned up.
LKill(p) ==
    /\ ProcRunning(lp, p)
    /\ lp' = [lp EXCEPT ![p].pc = "dead"]
    /\ UNCHANGED <<lrole, lock, lockBy, nonLockVars>>

NextLock ==
    \E p \in Workers :
        \/ LStart(p) \/ LExists(p) \/ LRead(p) \/ LCheck(p)
        \/ LRemove(p) \/ LWrite(p) \/ LExit(p) \/ LKill(p)

SpecLock == InitLock /\ [][NextLock]_vars

-----------------------------------------------------------------------------
(* SpecNotice: the Notice Coordinator's ticks, the user closing the notice, *)
(* the UI's counter updates and the saver's writes to the state file.      *)

\* A hold that is over at the next tick.
Aged_AtOnce(x, by) == 0

Aged(x, by) == Max(0, x - by)

FlipAge(flipped, age, by, cap) ==
    IF flipped THEN 0 ELSE IF age + by < cap THEN age + by ELSE cap

\* A trigger timestamp that never counts as newer.
TriggerNewer_Never(trigger, last) == FALSE

\* saver_trigger_at > self.last_saver_trigger_at
TriggerNewer(trigger, last) == trigger > last

Reenabled_Never(enabled, last) == FALSE

\* self.cfg.notice_enabled and not self.last_notice_enabled
Reenabled(enabled, last) == enabled /\ ~last

\* TargetWorker._tick, lines 4133-4162: the flags read from the state file,
\* the release holds, and the rules that clear notice_dismissed.
NoticeRead(n, f, c, elapsed) ==
    LET state == read_notice_state(f)
        ui_active == state.ui_active > 0
        saver_active == state.saver_active
        newer == TriggerNewer(state.saver_trigger_at, n.last_saver_trigger_at)
        reenabled == Reenabled(c.notice_enabled, n.last_notice_enabled)
        d1 == n.notice_dismissed /\ ~reenabled
        d2 == d1 /\ ~newer
        repeat == /\ ~saver_active /\ ~c.saver_enabled /\ c.notice_repeat_enabled
                  /\ d2 /\ state.notice_dismissed_at /\ elapsed
    IN  [n EXCEPT
           !.last_notice_enabled = c.notice_enabled,
           !.last_ui_active = ui_active,
           !.ui_release_hold =
               IF ui_active # n.last_ui_active /\ ~ui_active
               THEN UiHoldTenths ELSE Aged(@, c.poll),
           !.last_saver_active = saver_active,
           !.saver_release_hold =
               IF saver_active # n.last_saver_active /\ ~saver_active
               THEN SaverHoldTenths ELSE Aged(@, c.poll),
           !.ui_flip_age =
               FlipAge(ui_active # n.last_ui_active, @, c.poll, UiHoldTenths),
           !.saver_flip_age =
               FlipAge(saver_active # n.last_saver_active, @, c.poll,
                       SaverHoldTenths),
           !.last_saver_trigger_at = IF newer THEN state.saver_trigger_at ELSE @,
           !.pending_notice_after_saver = @ \/ newer,
           !.after_trigger = IF @ = 0 /\ newer /\ d1 THEN 1 ELSE @,
           !.after_reenable =
               IF @ = 0 /\ reenabled /\ n.notice_dismissed THEN 1 ELSE @,
           !.notice_dismissed = d2 /\ ~repeat]

\* TargetWorker._tick, lines 4164-4198: the decision.  The result is the
\* worker's fields and the state file.
NoticeDecide(n, f, c, hides) ==
    LET ui_active == n.last_ui_active
        saver_active == n.last_saver_active
        hold_notice == n.saver_release_hold > 0 \/ n.ui_release_hold > 0
    IN  IF ui_active THEN
            [n |-> [n EXCEPT
                      !.win = IF @.vis THEN set_interaction_lock(@, FALSE, hides) ELSE @,
                      !.last_interaction_lock = "false"],
             f |-> f]
        ELSE IF saver_active THEN
            [n |-> [n EXCEPT !.win = hide(@), !.last_interaction_lock = "none"],
             f |-> f]
        ELSE IF c.notice_enabled /\ ~n.notice_dismissed /\ ~hold_notice THEN
            LET shown == ~n.win.vis
                w1 == IF shown THEN show_centered(n.win, hides) ELSE n.win
                relock == n.last_interaction_lock # "true"
                w2 == IF relock THEN set_interaction_lock(w1, TRUE, hides) ELSE w1
            IN  [n |-> [n EXCEPT !.win = w2,
                                 !.last_interaction_lock = "true",
                                 !.pending_notice_after_saver = FALSE,
                                 !.after_trigger =
                                     IF w2.vis \/ @ = 0 THEN 0 ELSE 2,
                                 !.after_reenable =
                                     IF w2.vis \/ @ = 0 THEN 0 ELSE 2],
                 f |-> IF shown
                       THEN write_notice_state(f, [notice_dismissed_at |-> FALSE])
                       ELSE f]
        ELSE
            [n |-> [n EXCEPT !.win = hide(@), !.last_interaction_lock = "none"],
             f |-> f]

\* A re-exposure condition holds at a tick: the notice was re-enabled, the
\* screensaver trigger advanced, or the repeat interval has passed since
\* notice_dismissed_at with repetition enabled and the screensaver disabled.
ReExposure(n, f, c, elapsed) ==
    \/ c.notice_enabled /\ ~n.last_notice_enabled
    \/ read_notice_state(f).saver_trigger_at > n.last_saver_trigger_at
    \/ c.notice_repeat_enabled /\ ~c.saver_enabled /\ elapsed

\* One tick of the coordinator, a poll interval after the last one.  elapsed
\* says whether the repeat interval has passed since notice_dismissed_at.
NoticeTick ==
    \E elapsed \in (IF st.notice_dismissed_at THEN BOOLEAN ELSE {FALSE}) :
        LET n1 == NoticeRead(nt, st, ncfg, elapsed)
            r == NoticeDecide(n1, st, ncfg, qt)
        IN  /\ nt' = r.n
            /\ st' = r.f
            /\ nev' = [tick |-> TRUE,
                       ui_active |-> n1.last_ui_active,
                       saver_active |-> n1.last_saver_active,
                       hold |-> n1.saver_release_hold > 0 \/ n1.ui_release_hold > 0,
                       dismissed |-> n1.notice_dismissed,
                       clamped |-> FALSE,
                       visible_before |-> nt.win.vis,
                       elapsed |-> elapsed,
                       after_trigger |-> n1.after_trigger,
                       after_reenable |-> n1.after_reenable]
            /\ stands' = (stands /\ ~ReExposure(nt, st, ncfg, elapsed))
            /\ UNCHANGED <<qt, ncfg, nonNoticeVars>>

\* The user closes the notice: closeEvent emits closed (_dismiss_notice) and
\* hides the window.
NoticeClose ==
    /\ nt.win.vis
    /\ nt' = [nt EXCEPT !.notice_dismissed = TRUE, !.win = hide(@),
                         !.after_trigger = 0, !.after_reenable = 0]
    /\ st' = write_notice_state(st, [notice_dismissed_at |-> TRUE])
    /\ nev' = NoNev
    /\ stands' = TRUE
    /\ UNCHANGED <<qt, ncfg, nonNoticeVars>>

\* The target worker process is started anew.
NoticeRestart ==
    /\ nt' = InitNt(st, ncfg)
    /\ nev' = NoNev
    /\ UNCHANGED <<st, qt, ncfg, stands, nonNoticeVars>>

\* The settings are saved with one of the fields changed.
NoticeConfigChange ==
    /\ \E c \in NoticeConfigs :
          /\ c.poll = ncfg.poll
          /\ Cardinality({k \in DOMAIN c : c[k] # ncfg[k]}) = 1
          /\ ncfg' = c
          /\ stands' = (stands /\ ~(c.notice_enabled /\ ~ncfg.notice_enabled))
    /\ nev' = NoNev
    /\ UNCHANGED <<st, qt, nt, nonNoticeVars>>

\* showEvent / hideEvent of the settings window, the password dialog or the
\* warning dialog: update_notice_state_counter(work_dir, "ui_active", +-1).
UiCounter ==
    /\ \E delta \in {0 - 1, 1} :
          /\ st.ui_active + delta <= MaxUi
          /\ st' = update_notice_state_counter(st, "ui_active", delta)
          /\ nev' = [NoNev EXCEPT !.clamped = (st.ui_active + delta < 0)]
    /\ UNCHANGED <<qt, ncfg, nt, stands, nonNoticeVars>>

\* MainWindow.__init__: write_notice_state(work_dir, ui_active=0.0).
UiStart ==
    /\ st' = write_notice_state(st, [ui_active |-> 0])
    /\ nev' = NoNev
    /\ UNCHANGED <<qt, ncfg, nt, stands, nonNoticeVars>>

\* The saver worker publishes a transition (SaverWorker._tick).
SaverPublish ==
    /\ \/ /\ st.saver_trigger_at < MaxTrig
          /\ st' = write_notice_state(st, [saver_active |-> TRUE,
                       saver_trigger_at |-> st.saver_trigger_at + 1])
          /\ stands' = FALSE
       \/ /\ st' = write_notice_state(st, [saver_active |-> FALSE])
          /\ UNCHANGED stands
    /\ nev' = NoNev
    /\ UNCHANGED <<qt, ncfg, nt, nonNoticeVars>>

InitNotice ==
    /\ UiIdle
    /\ SaveIdle
    /\ SupIdle
    /\ SchedIdle
    /\ LockIdle
    /\ SaverIdle
    /\ FileIdle
    /\ PollIdle
    /\ ConfigIdle
    /\ st = EmptyState
    /\ qt \in BOOLEAN
    /\ ncfg \in NoticeConfigs
    /\ nt = InitNt(st, ncfg)
    /\ nev = NoNev
    /\ stands = FALSE

NextNotice ==
    \/ NoticeTick \/ NoticeClose \/ NoticeRestart \/ NoticeConfigChange
    \/ UiCounter \/ UiStart \/ SaverPublish

SpecNotice == InitNotice /\ [][NextNotice]_vars

-----------------------------------------------------------------------------
(* SpecSaver: the Idle Monitor's ticks with the sampled idle time as input. *)

\* SaverWorker._tick, the two places that publish Hidden: saver_visible is
\* cleared and saver_active=0.0 written, if saver_visible was set.
SaverHide(s, f) ==
    [s |-> [s EXCEPT !.saver_visible = FALSE, !.win_vis = FALSE],
     f |-> IF s.saver_visible
           THEN write_notice_state(f, [saver_active |-> FALSE])
           ELSE f]

\* The show branch: only when the window is not visible; the state is
\* written only when saver_visible was not set.
SaverShow(s, f) ==
    IF s.win_vis THEN [s |-> s, f |-> f]
    ELSE [s |-> [s EXCEPT !.saver_visible = TRUE, !.win_vis = TRUE],
          f |-> IF ~s.saver_visible
                THEN write_notice_state(f, [saver_active |-> TRUE,
                         saver_trigger_at |-> f.saver_trigger_at + 1])
                ELSE f]

\* SaverWorker._tick: idle <= active_threshold_sec is tested first,
\* idle >= idle_to_show_sec only when it fails.
SaverTickResult(s, f, c, idle) ==
    IF ~c.saver_enabled THEN SaverHide(s, f)
    ELSE IF ~s.started THEN [s |-> s, f |-> f]
    ELSE IF idle <= c.active_threshold_sec THEN SaverHide(s, f)
    ELSE IF idle >= c.idle_to_show_sec THEN SaverShow(s, f)
    ELSE [s |-> s, f |-> f]

SaverTick ==
    \E idle \in Idles :
        LET r == SaverTickResult(sv, st, scfg, idle)
        IN  /\ r.f.saver_trigger_at <= MaxTrig
            /\ sv' = r.s
            /\ st' = r.f
            /\ sev' = [tick |-> TRUE, idle |-> idle, sv |-> sv, st |-> st]
            /\ UNCHANGED <<scfg, nonSaverVars>>

\* saver_start_delay_sec has passed since started_at.
SaverStartDelayOver ==
    /\ ~sv.started
    /\ sv' = [sv EXCEPT !.started = TRUE]
    /\ sev' = NoSev
    /\ UNCHANGED <<st, scfg, nonSaverVars>>

\* The settings are saved with one of the saver's fields changed.
SaverConfigChange ==
    /\ \E c \in SaverConfigs :
          /\ Cardinality({k \in DOMAIN c : c[k] # scfg[k]}) = 1
          /\ scfg' = c
    /\ sev' = NoSev
    /\ UNCHANGED <<st, sv, nonSaverVars>>

\* The overlay is closed from outside the worker (QWidget.close).
SaverWindowClosed ==
    /\ sv.win_vis
    /\ sv' = [sv EXCEPT !.win_vis = FALSE]
    /\ sev' = NoSev
    /\ UNCHANGED <<st, scfg, nonSaverVars>>

\* The saver worker process is started anew.
SaverRestart ==
    /\ sv' = InitSv
    /\ sev' = NoSev
    /\ UNCHANGED <<st, scfg, nonSaverVars>>

InitSaver ==
    /\ UiIdle
    /\ SaveIdle
    /\ SupIdle
    /\ SchedIdle
    /\ LockIdle
    /\ NoticeIdle
    /\ FileIdle
    /\ PollIdle
    /\ ConfigIdle
    /\ st = EmptyState
    /\ scfg \in SaverConfigs
    /\ sv = InitSv
    /\ sev = NoSev

NextSaver ==
    \/ SaverTick \/ SaverStartDelayOver \/ SaverConfigChange
    \/ SaverWindowClosed \/ SaverRestart

SpecSaver == InitSaver /\ [][NextSaver]_vars

-----------------------------------------------------------------------------
(* SpecUi: show and hide events of the UI's interactive windows.           *)

\* update_notice_state_counter on the state file of directory d.
Counted(u, d, delta) ==
    [u EXCEPT !.files[d] = update_notice_state_counter(@, "ui_active", delta)]

\* A show event can still be counted in the state file of directory d.
CanCount(d) == ui.files[d].ui_active < MaxUiCount

\* MainWindow.showEvent: counted once, under the _ui_active flag.
showEvent(u) ==
    IF ~u._ui_active
    THEN [Counted(u, u.work_dir, 1) EXCEPT !._ui_active = TRUE]
    ELSE u

\* MainWindow.hideEvent.
hideEvent(u) ==
    IF u._ui_active
    THEN [Counted(u, u.work_dir, 0 - 1) EXCEPT !._ui_active = FALSE]
    ELSE u

\* The settings window is shown; it is not opened while the password dialog
\* is up (_handle_password_finished shows it).
SettingsShown ==
    /\ ~ui.vis["settings"] /\ ~ui.minimized /\ ~ui.vis["password"]
    /\ CanCount(ui.work_dir)
    /\ ui' = [showEvent(ui) EXCEPT
                 !.vis["settings"] = TRUE,
                 !.ev = [kind |-> "show", window |-> "settings"]]
    /\ UNCHANGED nonUiVars

\* The settings window is hidden (closed to the tray), minimized or not.
SettingsHidden ==
    /\ ui.vis["settings"] \/ ui.minimized
    /\ ui' = [hideEvent(ui) EXCEPT
                 !.vis["settings"] = FALSE,
                 !.minimized = FALSE,
                 !.ev = [kind |-> "hide", window |-> "settings"]]
    /\ UNCHANGED nonUiVars

\* The user minimizes the settings window: Qt delivers a spontaneous hide
\* event and goes on calling the window visible.
SettingsMinimized ==
    /\ ui.vis["settings"]
    /\ ui' = [hideEvent(ui) EXCEPT
                 !.vis["settings"] = FALSE,
                 !.minimized = TRUE,
                 !.ev = [kind |-> "minimize", window |-> "settings"]]
    /\ UNCHANGED nonUiVars

\* The minimized settings window is restored (by the user, or by
\* _bring_window_to_front's showNormal): a spontaneous show event.
SettingsRestored ==
    /\ ui.minimized
    /\ CanCount(ui.work_dir)
    /\ ui' = [showEvent(ui) EXCEPT
                 !.vis["settings"] = TRUE,
                 !.minimized = FALSE,
                 !.ev = [kind |-> "restore", window |-> "settings"]]
    /\ UNCHANGED nonUiVars

\* _request_settings_open: a PasswordDialog is constructed with cfg.work_dir
\* and opened, unless the settings window is visible.
PasswordShown ==
    /\ ~ui.vis["password"] /\ ~ui.vis["settings"] /\ ~ui.minimized
    /\ CanCount(ui.work_dir)
    /\ ui' = [Counted(ui, ui.work_dir, 1) EXCEPT
                 !.vis["password"] = TRUE,
                 !._work_dir["password"] = ui.work_dir,
                 !.ev = [kind |-> "show", window |-> "password"]]
    /\ UNCHANGED nonUiVars

\* PasswordDialog.hideEvent; the warning dialog over it has been closed.
PasswordHidden ==
    /\ ui.vis["password"] /\ ~ui.vis["warning"]
    /\ ui' = [Counted(ui, ui._work_dir["password"], 0 - 1) EXCEPT
                 !.vis["password"] = FALSE,
                 !.ev = [kind |-> "hide", window |-> "password"]]
    /\ UNCHANGED nonUiVars

\* PasswordDialog._show_warning: a WarningDialog with the dialog's _work_dir.
WarningShown ==
    /\ ui.vis["password"] /\ ~ui.vis["warning"]
    /\ CanCount(ui._work_dir["password"])
    /\ ui' = [Counted(ui, ui._work_dir["password"], 1) EXCEPT
                 !.vis["warning"] = TRUE,
                 !._work_dir["warning"] = ui._work_dir["password"],
                 !.ev = [kind |-> "show", window |-> "warning"]]
    /\ UNCHANGED nonUiVars

WarningHidden ==
    /\ ui.vis["warning"]
    /\ ui' = [Counted(ui, ui._work_dir["warning"], 0 - 1) EXCEPT
                 !.vis["warning"] = FALSE,
                 !.ev = [kind |-> "hide", window |-> "warning"]]
    /\ UNCHANGED nonUiVars

\* MainWindow._change_work_dir, from the button of the settings window:
\* cfg.work_dir names the chosen directory from now on.
ChangeWorkDir ==
    /\ ui.vis["settings"]
    /\ \E d \in WorkDirs \ {ui.work_dir} :
          ui' = [ui EXCEPT !.work_dir = d,
                           !.ev = [kind |-> "work_dir", window |-> "settings"]]
    /\ UNCHANGED nonUiVars

\* The UI process is started anew: MainWindow.__init__ loads the config
\* (work_dir is WORK_DIR again) and writes ui_active = 0.0.
UiStarted ==
    /\ ui' = [InitUi(WORK_DIR) EXCEPT
                 !.files = [ui.files EXCEPT ![WORK_DIR] =
                               write_notice_state(@, [ui_active |-> 0])]]
    /\ UNCHANGED nonUiVars

InitUiSpec ==
    /\ SchedIdle
    /\ LockIdle
    /\ NoticeIdle
    /\ SaverIdle
    /\ st = EmptyState
    /\ FileIdle
    /\ PollIdle
    /\ ConfigIdle
    /\ SupIdle
    /\ SaveIdle
    /\ ui = InitUi(WORK_DIR)

NextUi ==
    \/ SettingsShown \/ SettingsHidden \/ SettingsMinimized
    \/ SettingsRestored \/ PasswordShown \/ PasswordHidden
    \/ WarningShown \/ WarningHidden \/ ChangeWorkDir \/ UiStarted

SpecUi == InitUiSpec /\ [][NextUi]_vars

-----------------------------------------------------------------------------
(* SpecSuper: the saver worker under the UI's supervisor, which starts it  *)
(* and terminates it.                                                      *)

\* ProcessManager.stop("saver"): the worker process is terminated where it
\* stands; its SaverWorker object and its overlay are gone.
stop(u) == [sup |-> [u EXCEPT !.saver = FALSE], sv |-> InitSv]

\* ProcessManager.start("saver"): nothing if the process is alive, else a
\* new worker process, whose SaverWorker starts from __init__.
start(u, s) ==
    IF u.saver THEN [sup |-> u, sv |-> s]
    ELSE [sup |-> [u EXCEPT !.saver = TRUE], sv |-> InitSv]

\* MainWindow._sync_workers, the saver's part.
_sync_workers(u, s, c) ==
    IF ~u.is_running THEN [sup |-> u, sv |-> s]
    ELSE IF c.saver_enabled THEN start(u, s)
    ELSE stop(u)

\* MainWindow._start_workers.
SupStartWorkers ==
    /\ ~sup.is_running
    /\ LET r == _sync_workers([sup EXCEPT !.is_running = TRUE], sv, scfg)
       IN  sup' = r.sup /\ sv' = r.sv
    /\ sev' = NoSev
    /\ UNCHANGED <<st, scfg, nonSuperVars>>

\* MainWindow._stop_workers: stop_all, then is_running = False.
SupStopWorkers ==
    /\ sup.is_running
    /\ LET r == stop(sup)
       IN  sup' = [r.sup EXCEPT !.is_running = FALSE] /\ sv' = r.sv
    /\ sev' = NoSev
    /\ UNCHANGED <<st, scfg, nonSuperVars>>

\* MainWindow._autosave: the settings are saved with one of the saver's
\* fields changed, then _sync_workers runs.
SupAutosave ==
    /\ \E c \in SaverConfigs :
          /\ Cardinality({k \in DOMAIN c : c[k] # scfg[k]}) = 1
          /\ scfg' = c
          /\ LET r == _sync_workers(sup, sv, c)
             IN  sup' = r.sup /\ sv' = r.sv
    /\ sev' = NoSev
    /\ UNCHANGED <<st, nonSuperVars>>

\* The live worker's timer fires.
SupSaverTick == sup.saver /\ SaverTick

\* saver_start_delay_sec has passed in the live worker.
SupStartDelayOver == sup.saver /\ SaverStartDelayOver

InitSuper ==
    /\ UiIdle
    /\ SaveIdle
    /\ SchedIdle
    /\ LockIdle
    /\ NoticeIdle
    /\ FileIdle
    /\ PollIdle
    /\ ConfigIdle
    /\ st = EmptyState
    /\ scfg \in SaverConfigs
    /\ sv = InitSv
    /\ sev = NoSev
    /\ sup = [is_running |-> FALSE, saver |-> FALSE]

NextSuper ==
    \/ SupStartWorkers \/ SupStopWorkers \/ SupAutosave
    \/ SupSaverTick \/ SupStartDelayOver

SpecSuper == InitSuper /\ [][NextSuper]_vars

\* The worker's QTimer keeps firing while the worker process lives, so its
\* tick is eventually run.
SpecSuperFair == SpecSuper /\ WF_vars(SupSaverTick)

-----------------------------------------------------------------------------
(* SpecFile: the UI, the saver worker and the target worker update the      *)
(* state file step by step, and a tick reads it.  SpecCorrupt starts the    *)
(* same steps from a state file with arbitrary content.                     *)

\* Whether int() or float() of a read field raises ValueError.
Unreadable(d, K) == \E k \in K \cap DOMAIN d : d[k] = Malformed

\* What a read finds: the kind of the file's text, or "malformed" for a
\* dictionary with a field that is no number.
Found(file) ==
    IF file.kind = "json" /\ Unreadable(file.d, StateKeys)
    THEN "malformed" ELSE file.kind

\* update_notice_state_counter, lines 176-178, and write_notice_state, lines
\* 165-167: the state is read and changed in memory.
WBegin(p) ==
    /\ fp[p].pc = "idle"
    /\ fev.writes < MaxWrites
    /\ LET state == ReadStateFile(sf)
           step == [fev EXCEPT !.p = p, !.step = "read", !.raw = Found(sf),
                               !.error = "none", !.writes = @ + 1]
       IN  IF p = "ui"
           THEN \E delta \in {0 - 1, 1} :
                   IF Unreadable(state, {"ui_active"})
                   THEN /\ fp' = fp
                        /\ fev' = [step EXCEPT !.error = "value"]
                   ELSE /\ Get(state, "ui_active") + delta <= MaxUi
                        /\ fp' = [fp EXCEPT ![p] =
                               [pc |-> "ready", keys |-> {"ui_active"},
                                state |-> Updated(state, [ui_active |->
                                   ClampAtZero(Get(state, "ui_active") + delta)])]]
                        /\ fev' = step
           ELSE \E op \in WriterOps(p) :
                   /\ op = "activate" => fev.clock <= MaxTrig
                   /\ fp' = [fp EXCEPT ![p] =
                          [pc |-> "ready",
                           keys |-> DOMAIN UpdatesOf(op, fev.clock),
                           state |-> Updated(state, UpdatesOf(op, fev.clock))]]
                   /\ fev' = [step EXCEPT !.clock =
                                  IF op = "activate" THEN @ + 1 ELSE @]
    /\ UNCHANGED <<sf, tmp, nonFileVars>>

\* open(tmp_path, "w"): the temp file is created or truncated.
WOpen(p) ==
    /\ fp[p].pc = "ready"
    /\ fp' = [fp EXCEPT ![p].pc = "open"]
    /\ tmp' = [text |-> EmptyText, open |-> tmp.open \cup {p}]
    /\ fev' = [fev EXCEPT !.p = p, !.step = "open", !.error = "none"]
    /\ UNCHANGED <<sf, nonFileVars>>

\* json.dump(state, file) and the end of the with block: the buffered text
\* is written at offset 0 and the file is closed.
WDump(p) ==
    /\ fp[p].pc = "open"
    /\ fp' = [fp EXCEPT ![p].pc = "closed"]
    /\ tmp' = [text |-> Overwritten(tmp.text, fp[p].state),
               open |-> tmp.open \ {p}]
    /\ fev' = [fev EXCEPT !.p = p, !.step = "dump", !.error = "none"]
    /\ UNCHANGED <<sf, nonFileVars>>

\* os.replace(tmp_path, path).  It raises FileNotFoundError when the temp
\* file is gone and, on Windows, PermissionError while another process has
\* it open; the call that raises leaves both files as they are.
WReplace(p) ==
    /\ fp[p].pc = "closed"
    /\ fp' = [fp EXCEPT ![p] = InitFp]
    /\ IF tmp.text.kind = "none"
       THEN /\ fev' = [fev EXCEPT !.p = p, !.step = "replace", !.error = "missing"]
            /\ UNCHANGED <<sf, tmp>>
       ELSE IF tmp.open # {}
       THEN /\ fev' = [fev EXCEPT !.p = p, !.step = "replace", !.error = "denied"]
            /\ UNCHANGED <<sf, tmp>>
       ELSE /\ sf' = tmp.text
            /\ tmp' = [text |-> NoText, open |-> {}]
            /\ fev' = [fev EXCEPT !.p = p, !.step = "replace", !.error = "none"]
    /\ UNCHANGED nonFileVars

\* TargetWorker._tick, lines 4135-4152: the state is read and its fields are
\* converted with int() and float().
TickReadsFile ==
    /\ LET state == ReadStateFile(sf)
       IN  fev' = [fev EXCEPT
                     !.p = "tick", !.step = "read", !.raw = Found(sf),
                     !.error = IF Unreadable(state, StateKeys)
                               THEN "value" ELSE "none"]
    /\ UNCHANGED <<sf, tmp, fp, nonFileVars>>

InitFile ==
    /\ UiIdle
    /\ SaveIdle
    /\ SupIdle
    /\ SchedIdle
    /\ LockIdle
    /\ NoticeIdle
    /\ SaverIdle
    /\ st = EmptyState
    /\ FileIdle
    /\ PollIdle
    /\ ConfigIdle

NextFile ==
    \/ \E p \in Writers : WBegin(p) \/ WOpen(p) \/ WDump(p) \/ WReplace(p)
    \/ TickReadsFile

SpecFile == InitFile /\ [][NextFile]_vars

\* The state files a process may come upon: absent, unparsable, JSON that
\* is no dictionary, and dictionaries of at most MaxFields fields whose
\* values are 0, 1 or no number.
MaxFields == 2

StateFiles ==
    {NoText, BadText(2), NonDictText} \cup
    {JsonText(d) : d \in UNION {[K -> {0, 1, Malformed}] :
                       K \in {S \in SUBSET StateKeys : Cardinality(S) <= MaxFields}}}

InitCorrupt ==
    /\ UiIdle
    /\ SaveIdle
    /\ SupIdle
    /\ SchedIdle
    /\ LockIdle
    /\ NoticeIdle
    /\ SaverIdle
    /\ st = EmptyState
    /\ PollIdle
    /\ ConfigIdle
    /\ sf \in StateFiles
    /\ tmp = [text |-> NoText, open |-> {}]
    /\ fp = [p \in Writers |-> InitFp]
    /\ fev = NoFev

SpecCorrupt == InitCorrupt /\ [][NextFile]_vars

-----------------------------------------------------------------------------
(* SpecPoll: one worker's poll loop, the time it waits before its next tick *)
(* and the poll interval being edited while it runs.                        *)

\* The sleep that ends an iteration of AudioWorker.run on the given path:
\* time.sleep(self.cfg.poll_sec) before each continue, and
\* time.sleep(max(self.cfg.poll_sec, 0.2)) at the end of the loop body.
AudioSleep(path, poll_sec) ==
    IF path = "normal" THEN ClampedPoll(poll_sec) ELSE poll_sec

\* One iteration of AudioWorker.run, on any of its paths.
AudioIteration ==
    /\ pl.worker = "audio"
    /\ \E path \in AudioPaths :
          pl' = [pl EXCEPT !.path = path,
                           !.delay = AudioSleep(path, pl.poll_sec),
                           !.ticked = TRUE]
    /\ UNCHANGED nonPollVars

\* A timeout of the QTimer of TargetWorker or SaverWorker: _tick runs, with
\* the timer's interval left as it was started.
TimerTick ==
    /\ pl.worker # "audio"
    /\ pl' = [pl EXCEPT !.path = "timer", !.delay = pl.timer, !.ticked = TRUE]
    /\ UNCHANGED nonPollVars

\* The settings are saved with another poll interval; the workers read it
\* with load_config at their next tick.
PollConfigChange ==
    /\ \E poll_sec \in PollSecs \ {pl.poll_sec} :
          pl' = [pl EXCEPT !.poll_sec = poll_sec, !.ticked = FALSE]
    /\ UNCHANGED nonPollVars

\* The worker process is started anew.
PollRestart ==
    /\ pl.ticked
    /\ pl' = InitPl(pl.worker, pl.poll_sec)
    /\ UNCHANGED nonPollVars

InitPoll ==
    /\ UiIdle
    /\ SaveIdle
    /\ SupIdle
    /\ SchedIdle
    /\ LockIdle
    /\ NoticeIdle
    /\ SaverIdle
    /\ st = EmptyState
    /\ FileIdle
    /\ ConfigIdle
    /\ \E worker \in {"audio", "target", "saver"}, poll_sec \in PollSecs :
          pl = InitPl(worker, poll_sec)

NextPoll == AudioIteration \/ TimerTick \/ PollConfigChange \/ PollRestart

SpecPoll == InitPoll /\ [][NextPoll]_vars

-----------------------------------------------------------------------------
(* SpecConfig: load_config on every content of the two configuration files, *)
(* and the files being edited between loads.                                *)

\* save_config: the snapshot is written to config.json in cfg.work_dir.
save_config(c, files) ==
    IF c.elsewhere THEN [files EXCEPT !.alt = StoredConfig(c)]
    ELSE [files EXCEPT !.primary = StoredConfig(c)]

\* The handler of load_config that writes the defaults back.
LoadFailed_WritesBack(files) ==
    [cfg |-> DefaultSnapshot, files |-> save_config(DefaultSnapshot, files),
     logged |-> TRUE, raised |-> FALSE]

\* load_config, the except branch: the error is logged and AppConfig() is
\* returned.
LoadFailed(files) ==
    [cfg |-> DefaultSnapshot, files |-> files, logged |-> TRUE, raised |-> FALSE]

\* except Exception: the errors of json.load (JSONDecodeError) and of
\* AppConfig.from_dict (ValueError, TypeError, AttributeError) are caught.
CaughtByExcept(kind) == kind \in {"unparsable", "badfields"}

\* What the try statement makes of a file that does not load.
OnLoadError(kind, files) ==
    IF CaughtByExcept(kind) THEN LoadFailed(files)
    ELSE [cfg |-> DefaultSnapshot, files |-> files, logged |-> FALSE,
          raised |-> TRUE]

\* load_config, the end of the try block: a snapshot without password_hash
\* gets one and is saved.
LoadFinished(c, files) ==
    IF ~c.has_hash
    THEN LET hashed == [c EXCEPT !.has_hash = TRUE]
         IN  [cfg |-> hashed, files |-> save_config(hashed, files),
              logged |-> FALSE, raised |-> FALSE]
    ELSE [cfg |-> c, files |-> files, logged |-> FALSE, raised |-> FALSE]

\* load_config.  files is [primary, alt].
load_config(files) ==
    IF files.primary.kind = "absent"
    THEN [cfg |-> DefaultSnapshot, files |-> save_config(DefaultSnapshot, files),
          logged |-> FALSE, raised |-> FALSE]
    ELSE IF files.primary.kind # "ok"
    THEN OnLoadError(files.primary.kind, files)
    ELSE IF files.primary.data.elsewhere /\ files.alt.kind # "absent"
    THEN IF files.alt.kind # "ok" THEN OnLoadError(files.alt.kind, files)
         ELSE LoadFinished(files.alt.data, files)
    ELSE LoadFinished(files.primary.data, files)

\* A process calls load_config.
LoadConfig ==
    /\ LET files == [primary |-> cf.primary, alt |-> cf.alt]
           r == load_config(files)
       IN  cf' = [primary |-> r.files.primary, alt |-> r.files.alt,
                  ev |-> [loaded |-> TRUE, cfg |-> r.cfg, logged |-> r.logged,
                          raised |-> r.raised,
                          primary |-> cf.primary, alt |-> cf.alt]]
    /\ UNCHANGED nonConfigVars

\* One of the two files is saved, damaged or removed outside load_config.
\* The config.json of another work_dir holds that work_dir.
ConfigEdited ==
    /\ \E f \in ConfigFiles :
          \/ f # cf.primary /\ cf' = [cf EXCEPT !.primary = f, !.ev = NoCev]
          \/ /\ f # cf.alt
             /\ f.kind = "ok" => f.data.elsewhere
             /\ cf' = [cf EXCEPT !.alt = f, !.ev = NoCev]
    /\ UNCHANGED nonConfigVars

InitConfig ==
    /\ UiIdle
    /\ SaveIdle
    /\ SupIdle
    /\ SchedIdle
    /\ LockIdle
    /\ NoticeIdle
    /\ SaverIdle
    /\ st = EmptyState
    /\ FileIdle
    /\ PollIdle
    /\ cf = [primary |-> AbsentConfig, alt |-> AbsentConfig, ev |-> NoCev]

NextConfig == LoadConfig \/ ConfigEdited

SpecConfig == InitConfig /\ [][NextConfig]_vars

-----------------------------------------------------------------------------
(* SpecSave: a worker's ticks while the settings window saves config.json. *)

\* save_config, `with open(path, "w")`: the file is truncated.
SaveOpen ==
    /\ cs.ui.pc = "idle"
    /\ \E c \in SavedSnapshots :
          cs' = [cs EXCEPT !.ui = [pc |-> "open", data |-> c],
                           !.file = TruncatedConfig,
                           !.ev = NoCsEv]
    /\ UNCHANGED nonSaveVars

\* save_config, the end of the with block: the text json.dump produced is
\* flushed and the file closed.
SaveClose ==
    /\ cs.ui.pc = "open"
    /\ cs' = [cs EXCEPT !.ui.pc = "idle",
                        !.file = StoredConfig(cs.ui.data),
                        !.saved = cs.ui.data,
                        !.ev = NoCsEv]
    /\ UNCHANGED nonSaveVars

\* elif config_signature != self.last_config_signature: the signature is
\* taken over and a live process is stopped.
SigChanged(k, sig) ==
    [k EXCEPT !.last_config_signature = sig, !.proc = FALSE]

\* The head of a worker tick: load_config and the config signature check.
WorkerSigCheck(k, c) ==
    LET sig == config_signature(c)
    IN  IF k.last_config_signature = NoSig
        THEN [k EXCEPT !.last_config_signature = sig]
        ELSE IF sig # k.last_config_signature THEN SigChanged(k, sig)
        ELSE k

WorkerConfigTick ==
    /\ \E role_ \in SigWorkers :
          LET r == load_config([primary |-> cs.file, alt |-> AbsentConfig])
              k == WorkerSigCheck(cs.wk[role_], r.cfg)
              whole == r.cfg \in {cs.saved, cs.ui.data}
          IN  cs' = [cs EXCEPT
                       !.file = r.files.primary,
                       !.wk[role_] = [k EXCEPT !.intact = whole],
                       !.ev = [tick |-> TRUE, role |-> role_, cfg |-> r.cfg,
                               prev |-> cs.saved, next |-> cs.ui.data,
                               saving |-> cs.ui.pc = "open",
                               stopped |-> cs.wk[role_].proc /\ ~k.proc,
                               intact |-> cs.wk[role_].intact]]
    /\ UNCHANGED nonSaveVars

\* A scheduler launches its role's process when none is alive.
WorkerLaunched ==
    /\ \E role_ \in SigWorkers :
          /\ ~cs.wk[role_].proc
          /\ cs.wk[role_].last_config_signature # NoSig
          /\ cs' = [cs EXCEPT !.wk[role_].proc = TRUE, !.ev = NoCsEv]
    /\ UNCHANGED nonSaveVars

\* A worker process is started anew.
WorkerRestarted ==
    /\ \E role_ \in SigWorkers :
          cs' = [cs EXCEPT !.wk[role_] = InitWk, !.ev = NoCsEv]
    /\ UNCHANGED nonSaveVars

InitSave ==
    /\ UiIdle
    /\ SchedIdle
    /\ LockIdle
    /\ NoticeIdle
    /\ SaverIdle
    /\ st = EmptyState
    /\ FileIdle
    /\ PollIdle
    /\ ConfigIdle
    /\ SupIdle
    /\ \E c \in SavedSnapshots : cs = InitCs(c)

NextSave ==
    \/ SaveOpen \/ SaveClose \/ WorkerConfigTick \/ WorkerLaunched
    \/ WorkerRestarted

SpecSave == InitSave /\ [][NextSave]_vars

-----------------------------------------------------------------------------
(* Properties of the Launch Scheduler (SpecSched).  ev describes the tick  *)
(* that has just ended; a step of the environment resets it.               *)

\* The processes the last tick's scan found that are still alive.
FoundAlive == {p \in ev.found : os[p].st = "alive"}

\* C1: at-most-one-instance.  Of the processes with the role's identity that
\* a tick's scan finds, at most one survives the tick, and after a tick that
\* adopted one, the survivor is the canonical process.
C1_AtMostOneInstance ==
    (ev.tick /\ ev.scanned # "none") =>
        /\ Cardinality(FoundAlive) <= 1
        /\ (ev.outcome = "adopted" => FoundAlive = {w.ext})

\* C2 as stated: no launch attempt is made while now - lastLaunchAt is less
\* than the relaunch cooldown of the configuration read by that tick.
C2_CooldownCurrentConfig ==
    ev.launched => ev.since >= cfg.cooldown

\* C2, amended: no launch attempt is made while now - lastLaunchAt is less
\* than the relaunch cooldown that was configured at the tick that set
\* pendingLaunchAt for this launch.
C2_CooldownAtScheduling ==
    ev.launched => ev.since >= hist.schedCd

\* A relaunch made exactly one cooldown after the previous launch or adoption.
C2_Witness ==
    ev.launched /\ ev.since = 1 /\ hist.schedCd = 1

\* C3: once-policy idempotence.  In a config-signature epoch with repeat mode
\* once, at most one launch attempt is made, and whenever the once latch of
\* the enabled role is closed, the epoch has had its one instance: one launch
\* attempt, or an adopted process.
C3_OncePolicy ==
    (ev.tick /\ cfg.once) =>
        /\ hist.epochLaunches <= 1
        /\ (cfg.enabled /\ w.once_launched) =>
               (hist.epochLaunches = 1 \/ hist.epochAdopted)

\* The process a dedup keeps: the first with a visible window, else the first.
FirstOf(S) == CHOOSE p \in S : \A q \in S : p <= q
DedupKept == IF ev.foundVis # {} THEN FirstOf(ev.foundVis) ELSE FirstOf(ev.found)

\* C6: when a tick's scan finds two or more processes with the role's profile
\* directory, after the tick exactly one of them is alive: the first with a
\* visible window, or the first found if none has one.
C6_Dedup ==
    (ev.tick /\ ev.scanned = "profile" /\ Cardinality(ev.found) >= 2) =>
        \A p \in ev.found : (os[p].st = "alive") <=> (p = DedupKept)

\* What an adoption does: the canonical process is one the scan found, the
\* cooldown clock restarts, no launch is pending and none was made.
AdoptionDone ==
    /\ w.ext \in ev.found
    /\ PidAlive(os, w.ext)
    /\ w.last_launch = Now
    /\ w.pending = NoTime
    /\ w.once_launched
    /\ ~ev.launched

\* C10: adoption priority.  A tick with no live owned process whose scan finds any
\* process of the role's identity adopts one and launches nothing.
C10_AdoptAnyMatch ==
    (ev.tick /\ ev.scanned # "none" /\ ev.found # {}) => AdoptionDone

-----------------------------------------------------------------------------
(* Properties of the worker lock (SpecLock).                               *)

InPollLoop == {p \in Workers : lp[p].pc = "running"}

\* C8: worker mutual exclusion.  At no time do two worker processes of the
\* same role both run their poll loop.
C8_MutualExclusion == Cardinality(InPollLoop) <= 1

\* C9: stale lock reclaim.  A worker that finds the recorded pid alive
\* returns failure and has not written or removed the lock file; a worker
\* that finds it dead does not fail, and once it runs, the file holds its
\* pid for as long as no other process rewrites or removes the file.
C9_StaleLockReclaim ==
    \A p \in Workers :
        /\ lp[p].verdict = "alive" => (lp[p].pc = "failed" /\ ~lp[p].touched)
        /\ lp[p].pc = "failed" => lp[p].verdict = "alive"
        /\ (lp[p].verdict = "stale" /\ lp[p].pc = "running" /\ lockBy = p)
               => lock = p

\* A worker has reclaimed the lock of a killed worker and runs, and a later
\* worker that found the reclaimer alive has given up.
C9_Witness ==
    \E p, q \in Workers :
        /\ lp[p].verdict = "stale" /\ lp[p].pc = "running" /\ lock = p
        /\ lp[q].verdict = "alive" /\ lp[q].pc = "failed" /\ lp[q].seen = p

-----------------------------------------------------------------------------
(* Properties of the coordination state and the Notice Coordinator         *)
(* (SpecNotice).                                                           *)

\* C4: interaction-lock exclusivity.  At the end of every coordinator tick
\* that reads ui_active > 0 the notice window's interaction lock is false,
\* whether or not the notice is visible.
C4_InteractionLockExclusive == (nev.tick /\ nev.ui_active) => ~nt.win.locked

\* C5: refcount non-negativity.  The stored ui_active is never negative,
\* whatever increments, decrements and resets have been applied.
C5_RefcountNonNegative == st.ui_active >= 0

\* A decrement has just been applied to a stored count of 0.
C5_Witness == nev.clamped /\ st.ui_active = 0

-----------------------------------------------------------------------------
(* Properties of the Idle Monitor (SpecSaver).                             *)

SaverTicked == sev.tick /\ scfg.saver_enabled /\ sev.sv.started

SaverUntouched ==
    /\ sv.win_vis = sev.sv.win_vis
    /\ sv.saver_visible = sev.sv.saver_visible
    /\ st.saver_active = sev.st.saver_active
    /\ st.saver_trigger_at = sev.st.saver_trigger_at

\* C7: idle hysteresis.  With the saver enabled and its start delay over, a
\* tick sampling idle >= idle_to_show_sec leaves the saver visible, a tick
\* sampling idle <= active_threshold_sec leaves it hidden, and a tick
\* sampling an idle time strictly between the two changes neither the
\* saver's visible state nor saver_active / saver_trigger_at.
C7_IdleHysteresis ==
    SaverTicked =>
        /\ sev.idle >= scfg.idle_to_show_sec => sv.win_vis
        /\ sev.idle <= scfg.active_threshold_sec => ~sv.win_vis
        /\ (scfg.active_threshold_sec < sev.idle /\ sev.idle < scfg.idle_to_show_sec)
               => SaverUntouched

-----------------------------------------------------------------------------
(* Properties of single scheduler ticks (SpecSched), stated on the step    *)
(* from the state before the tick to the state after it.                   *)

\* The step is a poll-loop iteration.
IsSchedTick == ev'.tick

\* The canonical process before the tick: the live owned process, else the
\* adopted pid if that process is alive.
CanonBefore ==
    IF PidAlive(os, w.proc) THEN w.proc
    ELSE IF w.ext # NoPid /\ PidAlive(os, w.ext) THEN w.ext
    ELSE NoPid

\* The tick finds a config signature other than the one it saw last.
SigChangedBefore == w.sig # NoSig /\ Sig(cfg) # w.sig

\* The restart cycle as the tick leaves it: timing reset and the launch
\* scheduled, unless the same tick went on to disable, adopt or launch.
RestartCycle ==
    \/ ~cfg.enabled
    \/ ev'.launched
    \/ ev'.outcome = "adopted"
    \/ (w'.last_launch = 0 /\ w'.pending = Now + cfg.delay)

\* C11: config-change restart.  The first tick after the signature changed
\* while a canonical process, owned or adopted, is running terminates that
\* process, resets lastLaunchAt to 0 and sets pendingLaunchAt to
\* now + startDelay.
C11_ConfigChangeRestart ==
    [][(IsSchedTick /\ SigChangedBefore /\ CanonBefore # NoPid)
          => (os'[CanonBefore].st # "alive" /\ RestartCycle)]_vars

\* The processes the worker holds before the tick: owned and adopted.
HeldBefore ==
    {p \in {w.proc, w.ext} \ {NoPid} : PidAlive(os, p)}

\* C12: role disabled.  A tick that finds the role disabled terminates the
\* running owned process and the adopted process, clears pendingLaunchAt
\* and onceLaunched, and neither scans, schedules nor launches.
C12_RoleDisabled ==
    [][(IsSchedTick /\ ~cfg.enabled)
          => /\ \A p \in HeldBefore : os'[p].st # "alive"
             /\ w'.pending = NoTime
             /\ ~w'.once_launched
             /\ ev'.scanned = "none"
             /\ ~ev'.launched]_vars

\* The pid the Target worker's _current_pid returns before the tick.
WatchedBefore == IF PidAlive(os, w.proc) THEN w.proc ELSE w.ext

\* The tick's watchdog runs on the process it watched before the tick and
\* finds its window visible.
SeesWindow ==
    /\ IsSchedTick
    /\ role = "target"
    /\ cfg.enabled
    /\ ~(SigChangedBefore /\ PidAlive(os, w.proc))
    /\ WatchedBefore # NoPid
    /\ find_window_handles_by_pid(os, WatchedBefore)

GraceObserved ==
    [][(IsSchedTick /\ ev'.cleared # NoPid)
          => (hist.missPid = ev'.cleared /\ hist.missSpan + 1 >= GraceSec)]_vars

GraceCancelled ==
    [][SeesWindow => w'.missing_since = NoTime]_vars

\* C14: window watchdog grace.  The watchdog force-clears the canonical
\* process state only in a tick before which the window of that pid was
\* found missing by every tick over at least the grace window, and a tick
\* that finds the window visible leaves no grace timer running.
C14_WatchdogGrace == GraceObserved /\ GraceCancelled

-----------------------------------------------------------------------------
(* Properties of the worker under an unedited configuration                *)
(* (SpecSchedFair).                                                        *)

\* The last iteration made a launch attempt, the launcher returned no handle,
\* and the parity of the attempts is a.
LaunchFailed(a) ==
    ev.tick /\ ev.launched /\ w.proc = NoPid /\ hist.attempts = a

\* A live process with the identity the role scans for.
MatchingProcess ==
    \E p \in Pids : os[p].st = "alive" /\ os[p].kind = ScannedKind(cfg)

RetryPendingCleared ==
    [](\A a \in {0, 1} : LaunchFailed(a) => w.pending = NoTime)

RetryAfterCooldown ==
    [][(ev'.tick /\ ev'.launched) => ev'.since >= cfg.cooldown]_vars

RetryEventually ==
    \A a \in {0, 1} :
        (LaunchFailed(a) /\ cfg.enabled)
            ~> (hist.attempts # a \/ MatchingProcess)

\* C13: launch failure is retried.  After an iteration whose launch attempt
\* got no handle, pendingLaunchAt is cleared; while the role is enabled and
\* no matching process appears a further launch attempt is eventually made;
\* and an attempt is never made less than one cooldown after the one before.
C13_LaunchFailureRetried ==
    RetryPendingCleared /\ RetryAfterCooldown /\ RetryEventually

\* The last iteration's watchdog force-cleared the canonical process state,
\* and the iteration went on neither to adopt nor to launch; the parity of
\* the attempts is a.
ForceCleared(a) ==
    /\ ev.tick /\ ev.cleared # NoPid
    /\ ~ev.launched /\ ev.outcome # "adopted"
    /\ hist.attempts = a

AdoptedOrAttempted(a) == ev.outcome = "adopted" \/ hist.attempts # a

\* C15: the watchdog re-arms the relaunch.  After the watchdog force-clears
\* the canonical process state of an enabled role, a process is eventually
\* adopted or a new launch attempt is made.
C15_WatchdogRearms ==
    \A a \in {0, 1} :
        (ForceCleared(a) /\ cfg.enabled) ~> AdoptedOrAttempted(a)

\* C15, amended: the same, for a role whose repeat policy is not once.
C15_WatchdogRearmsRepeat ==
    \A a \in {0, 1} :
        (ForceCleared(a) /\ cfg.enabled /\ ~cfg.once) ~> AdoptedOrAttempted(a)

\* The watchdog has force-cleared the state under the repeat policy, and the
\* relaunch is scheduled but not yet made.
C15_Witness ==
    /\ \E a \in {0, 1} : ForceCleared(a)
    /\ cfg.enabled /\ ~cfg.once
    /\ w.pending # NoTime

-----------------------------------------------------------------------------
(* Properties of the Notice Coordinator's tick (SpecNotice), stated on the *)
(* state the tick ends in; nev holds what the tick read.                   *)

\* C16: screensaver priority over the notice.  At the end of every
\* coordinator tick that reads uiActiveRefCount = 0 and saverActive = true,
\* the notice window is not visible.
C16_SaverPriority ==
    (nev.tick /\ ~nev.ui_active /\ nev.saver_active) => ~nt.win.vis

\* Such a tick has found the notice visible.
C16_Witness ==
    /\ nev.tick /\ ~nev.ui_active /\ nev.saver_active
    /\ nev.visible_before
    /\ ~nt.win.vis

\* The tick read uiActiveRefCount = 0 and saverActive = false.
ReadsQuiet == nev.tick /\ ~nev.ui_active /\ ~nev.saver_active

\* The notice is enabled, not dismissed and not held, as the tick decided.
MayShow == ncfg.notice_enabled /\ ~nev.dismissed /\ ~nev.hold

ShownWhenDue == (ReadsQuiet /\ MayShow) => (nt.win.vis /\ nt.win.locked)

HiddenWhenNotDue == (ReadsQuiet /\ ~MayShow) => ~nt.win.vis

\* C17: the notice show rule.  At the end of every tick that reads
\* uiActiveRefCount = 0 and saverActive = false, the notice is visible and
\* interaction-locked if it is enabled, not dismissed and not held, and is
\* not visible if it is disabled, dismissed or held.
C17_NoticeShowRule == ShownWhenDue /\ HiddenWhenNotDue

\* The tick made the notice visible.
MadeVisible == nev.tick /\ ~nev.visible_before /\ nt.win.vis

\* C18: the notice hold window.  A tick never makes the notice visible less
\* than 0.5 s after the tick that last saw uiActiveRefCount > 0 change, or
\* less than 0.8 s after the tick that last saw saverActive change, whichever
\* way the flag changed.
C18_HoldWindow ==
    MadeVisible => /\ nt.ui_flip_age >= UiHoldTenths
                   /\ nt.saver_flip_age >= SaverHoldTenths

\* A tick inside a hold window keeps back a notice that is otherwise due.
C18_Witness ==
    /\ ReadsQuiet /\ nev.hold
    /\ ncfg.notice_enabled /\ ~nev.dismissed
    /\ ~nt.win.vis

\* C19: a dismissal survives a worker restart.  Once the user has dismissed
\* the notice, no tick, of the same worker or of a restarted one, makes the
\* notice visible before a re-exposure condition has held (repeat interval
\* elapsed, screensaver trigger advanced, or notice re-enabled).
C19_DismissalSurvivesRestart == MadeVisible => ~stands

\* Properties of single coordinator ticks, stated on the step from the state
\* before the tick to the state after it.
IsNoticeTick == nev'.tick

\* Before the tick the local dismissed flag is set, and neither the
\* re-enabling rule nor the screensaver-trigger rule applies in the tick.
DismissedBefore ==
    /\ nt.notice_dismissed
    /\ ~(ncfg.notice_enabled /\ ~nt.last_notice_enabled)
    /\ ~(read_notice_state(st).saver_trigger_at > nt.last_saver_trigger_at)

RepeatDue ==
    ncfg.notice_repeat_enabled /\ ~ncfg.saver_enabled /\ nev'.elapsed

RepeatClears ==
    [][(IsNoticeTick /\ DismissedBefore /\ RepeatDue)
          => ~nt'.notice_dismissed]_vars

RepeatKeeps ==
    [][(IsNoticeTick /\ DismissedBefore /\ ~RepeatDue)
          => nt'.notice_dismissed]_vars

\* C20: repeat re-exposure.  With repetition enabled and the screensaver
\* disabled, a tick at which the time since noticeDismissedAt exceeds the
\* repeat interval clears the local dismissed flag; the rule clears the flag
\* on no earlier tick and on no tick while the screensaver is enabled.
C20_RepeatReExposure == RepeatClears /\ RepeatKeeps


\* C21: a tick that reads a saver_trigger_at greater than the last one the
\* coordinator saw clears the local dismissed flag; after it, a tick that
\* reads no interactive UI and no screensaver with the notice enabled and no
\* hold is not held back by the dismissal, and the notice is visible by the
\* end of the second such tick at the latest.
TriggerAdvanced ==
    read_notice_state(st).saver_trigger_at > nt.last_saver_trigger_at

TriggerClears ==
    [][(IsNoticeTick /\ TriggerAdvanced) => ~nt'.notice_dismissed]_vars

DueAfterTrigger ==
    ReadsQuiet /\ ncfg.notice_enabled /\ ~nev.hold /\ nev.after_trigger > 0

ShownAfterTrigger ==
    DueAfterTrigger =>
        /\ ~nev.dismissed
        /\ nt.win.vis \/ (nev.after_trigger = 1 /\ nt.after_trigger = 2)

C21_TriggerClearsDismissal == TriggerClears /\ []ShownAfterTrigger

\* A tick shows the notice that the user had closed before the trigger.
C21_Witness == DueAfterTrigger /\ nt.win.vis /\ ~nev.visible_before

-----------------------------------------------------------------------------
(* Properties of the state file under concurrent writers (SpecFile).        *)

\* Process p's os.replace returns without an error in this step.
Replaces(p) ==
    /\ fp[p].pc = "closed"
    /\ fev'.p = p /\ fev'.step = "replace" /\ fev'.error = "none"

\* The update that p completes is in the state file.
UpdateReflected ==
    [][\A p \in Writers : Replaces(p) =>
          \A k \in fp[p].keys :
             Get(ReadStateFile(sf'), k) = fp[p].state[k]]_vars

\* The update that p completes leaves the fields of the other writers as
\* they were in the state file.
OthersUntouched ==
    [][\A p \in Writers : Replaces(p) =>
          \A k \in StateKeys \ Owned(p) :
             Get(ReadStateFile(sf'), k) = Get(ReadStateFile(sf), k)]_vars

\* C22: under every interleaving of the updates of the UI, the saver worker
\* and the target worker, each completed update is in the state file, and
\* it changes no field owned by another writer.
C22_NoLostUpdates == UpdateReflected /\ OthersUntouched

\* C23: under every interleaving of writers and a reader, a read of the
\* state file finds it absent (before the first write) or holding the
\* complete text of a record, never text cut short or mixed.
C23_NoPartialReads == fev.step = "read" => fev.raw \in {"none", "json"}

-----------------------------------------------------------------------------
(* Properties of reads of a damaged state file (SpecCorrupt).               *)

Damaged == fev.raw \in {"none", "bad", "nondict", "malformed"}

\* The process that has just read goes on from the empty state: an updater
\* holds nothing but the fields it sets.
FromEmptyState ==
    fev.p \in Writers => DOMAIN fp[fev.p].state = fp[fev.p].keys

\* C24: a tick or an update that reads a state file that is missing,
\* unparsable, no dictionary or a dictionary with a non-numeric field raises
\* no error and goes on from the empty state.
C24_CorruptionTolerated ==
    (fev.step = "read" /\ Damaged) => (fev.error = "none" /\ FromEmptyState)

-----------------------------------------------------------------------------
(* Properties of the state a scheduler tick ends in (SpecSched).            *)

\* The worker knows a live process of its role, owned or adopted.
LiveCanonical == PidAlive(os, w.proc) \/ PidAlive(os, w.ext)

PendingOnlyWithoutProcess == (ev.tick /\ w.pending # NoTime) => ~LiveCanonical

PendingClearedByLaunchOrAdoption ==
    (ev.tick /\ (ev.launched \/ ev.outcome = "adopted")) => w.pending = NoTime

\* C25: at the end of every tick pendingLaunchAt is set only if the worker
\* knows no live process of its role, owned or adopted, and it is unset at
\* the end of a tick that made a launch attempt or adopted a process.
C25_PendingInvariant ==
    PendingOnlyWithoutProcess /\ PendingClearedByLaunchOrAdoption

\* C26: at the end of every tick the worker does not hold both a live owned
\* process and an adopted external pid.
C26_SingleCanonicalHandle ==
    ev.tick => ~(PidAlive(os, w.proc) /\ w.ext # NoPid)

-----------------------------------------------------------------------------
(* Properties of what the Idle Monitor publishes (SpecSaver).               *)

IsSaverTick == sev'.tick

\* A tick that takes the saver from Hidden to Visible writes saver_active
\* and a saver_trigger_at newer than the stored one.
ShowPublished ==
    [][(IsSaverTick /\ ~sv.saver_visible /\ sv'.saver_visible)
          => (st'.saver_active /\ st'.saver_trigger_at > st.saver_trigger_at)]_vars

\* A tick that takes the saver from Visible to Hidden clears saver_active.
HidePublished ==
    [][(IsSaverTick /\ sv.saver_visible /\ ~sv'.saver_visible)
          => ~st'.saver_active]_vars

SaverStateMatches == sev.tick => (st.saver_active = sv.saver_visible)

\* C27: every transition of the saver is published to the state file, so
\* that after each saver tick the stored saver_active equals the saver's
\* visible state.
C27_SaverStatePublished ==
    ShowPublished /\ HidePublished /\ []SaverStateMatches

-----------------------------------------------------------------------------
(* Properties of the poll loops' timing (SpecPoll).                         *)

\* C28: for every worker and every configured poll interval, also one
\* edited while the worker runs, the wait between a tick and the next one
\* is at least 0.2 s on every path through the loop.
C28_MinTickInterval == pl.ticked => pl.delay >= MinPollTenths

-----------------------------------------------------------------------------
(* Properties of load_config (SpecConfig).                                  *)

\* The file that the last load_config had to parse last: the one in the
\* work_dir that the primary file names, if it names one and the file is
\* there, else the primary file.
ParsedConfig ==
    IF /\ cf.ev.primary.kind = "ok"
       /\ cf.ev.primary.data.elsewhere
       /\ cf.ev.alt.kind # "absent"
    THEN cf.ev.alt ELSE cf.ev.primary

Unparsed == cf.ev.loaded /\ ParsedConfig \in BrokenConfigs

\* C29: when the stored configuration cannot be parsed, load_config returns
\* the default snapshot, logs the failure, raises nothing and leaves both
\* configuration files as they were.
C29_CorruptConfigDefaults ==
    Unparsed => /\ cf.ev.cfg = DefaultSnapshot
                /\ cf.ev.logged
                /\ ~cf.ev.raised
                /\ cf.primary = cf.ev.primary
                /\ cf.alt = cf.ev.alt

\* A load that met an unparsable file in the configured work_dir.
C29_Witness ==
    /\ Unparsed
    /\ cf.ev.primary.kind = "ok"
    /\ cf.ev.alt.kind = "unparsable"
    /\ cf.ev.cfg = DefaultSnapshot

\* A tick schedules a launch only while it knows no live process of its role.
ScheduledWithoutProcess == (ev.tick /\ ev.sched # "none") => ~ev.schedLive

\* Step 5 schedules only once the cooldown since the last launch has elapsed.
ScheduledAfterCooldown ==
    (ev.tick /\ ev.sched = "step5") => ev.since >= cfg.cooldown

\* A tick schedules a launch only when none was pending before it.
ScheduledOnlyWhenNonePending ==
    [][(ev'.tick /\ ev'.sched # "none") => w.pending = NoTime]_vars

\* The launcher runs only in a tick whose clock has reached pendingLaunchAt:
\* the tick that scheduled the launch when the start delay is zero, a later
\* one, after the whole delay, otherwise.
LaunchOnlyWhenDue ==
    [][(ev'.tick /\ ev'.launched) =>
          IF ev'.sched # "none"
          THEN cfg.delay = 0
          ELSE w.pending # NoTime /\ Elapse(w).pending <= Now]_vars

\* C30: a launch is scheduled only in a tick where no live process is known,
\* no launch is pending and the cooldown has elapsed, and the launcher is
\* invoked only in a tick with now >= pendingLaunchAt, so that every launch
\* attempt comes at least startDelay after the tick that scheduled it.
C30_StartDelayHonoured ==
    /\ ScheduledOnlyWhenNonePending
    /\ LaunchOnlyWhenDue
    /\ [](ScheduledWithoutProcess /\ ScheduledAfterCooldown)

\* A tick that read ui_active > 0 leaves the notice as visible as it found it.
UiTickKeepsVisibility ==
    (nev.tick /\ nev.ui_active) => nt.win.vis = nev.visible_before

\* A notice still visible after such a tick is unlocked, without the
\* stay-on-top hint.
UiTickUnlocks ==
    (nev.tick /\ nev.ui_active /\ nt.win.vis) => (~nt.win.locked /\ ~nt.win.top)

\* C31: in every tick that reads ui_active > 0 the coordinator neither shows
\* nor hides the notice, whatever saver_active, the enabled flag and the
\* dismissed flag are: a visible notice stays visible, lowered and unlocked,
\* and a hidden one stays hidden.
C31_UiActiveKeepsVisibility == UiTickKeepsVisibility /\ UiTickUnlocks

\* The pid the Target worker's _current_pid returns after the tick.
CanonicalPid == IF PidAlive(os, w.proc) THEN w.proc ELSE w.ext

\* A grace timer that runs at the end of a Target tick was started for the
\* pid that is canonical then, by ticks that found that pid's window missing.
TimerOfCanonical ==
    (ev.tick /\ role = "target" /\ w.missing_since # NoTime)
        => (CanonicalPid # NoPid /\ hist.missPid = CanonicalPid)

\* C32: the watchdog's grace timer belongs to the current canonical pid.  A
\* timer started for an earlier process is discarded when the canonical
\* process changes, so a pid is force-cleared only after its own window has
\* been found missing over the whole grace window.
C32_GraceTimerOfCanonical == GraceObserved /\ []TimerOfCanonical

\* C33: saver_active is never left stale.  Whenever no saver worker process
\* is running, saver_active in the state file is false or becomes false
\* later.
C33_SaverActiveNotStale == (~sup.saver) ~> (~st.saver_active)

\* A tick's load_config returns the snapshot last saved or, during a save,
\* the one being saved.
ObservesSavedSnapshot == cs.ev.tick => cs.ev.cfg \in {cs.ev.prev, cs.ev.next}

\* A tick stops the role's process only for a signature that changed from
\* one saved snapshot to another.
StopsOnlyForSavedChange ==
    (cs.ev.tick /\ cs.ev.stopped)
        => (cs.ev.intact /\ cs.ev.cfg \in {cs.ev.prev, cs.ev.next})

\* C34: config snapshots are read atomically.  A worker tick that runs
\* load_config while the settings window executes save_config gets the
\* snapshot saved before or the new one, never the defaults or a partial
\* one, and so never stops a running process for a signature change that no
\* saved snapshot made.
C34_AtomicConfigRead == ObservesSavedSnapshot /\ StopsOnlyForSavedChange

\* The number of interactive windows that are visible.
VisibleWindows == Cardinality({x \in UiWindows : ui.vis[x]})

\* C35: ui_active tracks the visible interactive windows.  After any
\* sequence of show and hide events of the settings window, the password
\* dialog and the warning dialog, the ui_active stored in the state file the
\* coordinator reads equals the number of those windows that are visible,
\* and so is 0 once all of them are hidden.
C35_UiActiveTracksWindows ==
    ui.files[ui.state_dir].ui_active = VisibleWindows

\* The process of pid p is alive when the tick runs and is the role's: the
\* one the worker launched, or one with the identity the role scans for.
OfOwnRole(p) ==
    PidAlive(os, p) /\ (p = w.proc \/ os[p].kind = ScannedKind(cfg))

\* C36: a worker terminates only processes of its own role.  Every pid a
\* tick passes to terminate belongs, when the tick runs, to a live process
\* of the role; the pid of an adopted process that has exited since is not
\* terminated.
C36_TerminatesOwnRoleOnly ==
    [][IsSchedTick => \A p \in ev'.term : OfOwnRole(p)]_vars

\* Before the tick the coordinator last saw the notice disabled, and the
\* configuration the tick loads has it enabled.
ReenabledBefore == ncfg.notice_enabled /\ ~nt.last_notice_enabled

ReenableClears ==
    [][(IsNoticeTick /\ ReenabledBefore) => ~nt'.notice_dismissed]_vars

\* While the notice stays enabled a tick keeps the dismissal unless the
\* screensaver trigger advanced or the repeat interval has passed.
KeptWhileEnabled ==
    [][(IsNoticeTick /\ nt.notice_dismissed /\ ncfg.notice_enabled
          /\ nt.last_notice_enabled /\ ~TriggerAdvanced /\ ~RepeatDue)
          => nt'.notice_dismissed]_vars

DueAfterReenable ==
    ReadsQuiet /\ ncfg.notice_enabled /\ ~nev.hold /\ nev.after_reenable > 0

ShownAfterReenable ==
    DueAfterReenable =>
        /\ ~nev.dismissed
        /\ nt.win.vis \/ (nev.after_reenable = 1 /\ nt.after_reenable = 2)

====
